---- MODULE Spec2Model ----
(***************************************************************************)
(* Event reconciliation and stage synchronisation of the outreach tooling:  *)
(* the Mailgun per-recipient status merge and its CSV ledger                *)
(* (app/mailgun_util.py), the CSV contact store (app/api_client_csv.py),    *)
(* the unsubscribe poller (app/tasks/unsub_poll.py), the campaign dispatch  *)
(* (app/tasks/mailgun_send_campaign.py, app/tasks/mail_send_from_mailgun.py)*)
(* the SMTP bounce reconciliation (app/utils.py) and the booking pollers    *)
(* (app/tasks/cal_bookings_trigger.py, app/tasks/mail_bookings_trigger.py). *)
(***************************************************************************)
EXTENDS Integers, Sequences, FiniteSets, TLC

VARIABLES
    records,      \* compute_rows_for_day: (recipient, tag) -> record being merged
    kindsSeen,    \* history: the statuses of the events merged into each key
    nEvents,      \* history: number of events processed so far
    ledger,       \* rows of the per-recipient CSV (EMAIL_STATS_PATH), in file order
    fileExists,   \* os.path.exists(target_path)
    lastUpsert,   \* the call of upsert_csv: its position, its rows argument, the ledger it found
    contacts,     \* ContactStore: email -> row of the contacts CSV (or NoContact)
    inbox,        \* the IMAP folder the pollers scan: uid -> message with its flags
    lastOp,       \* history: what the last task run was given and what it did
    crm,          \* the CRM's Contacts of the booking customer, in creation order
    poller        \* the booking-mail poller: where it stands and its locals

mergeVars == <<records, kindsSeen, nEvents>>
ledgerVars == <<ledger, fileExists, lastUpsert>>
storeVars == <<contacts, inbox, lastOp>>
crmVars == <<crm, poller>>
vars == <<records, kindsSeen, nEvents, ledger, fileExists, lastUpsert,
          contacts, inbox, lastOp, crm, poller>>

\* The booking-mail poller is not running.
Idle ==
    [pc |-> "idle", uids |-> <<>>, uid |-> 0, processed |-> FALSE, handled |-> 0,
     tries |-> 0, polls |-> 0, data_ok |-> FALSE, result |-> "none",
     exhausted |-> FALSE, posts |-> 0]

None == "None"      \* Python None where a status is expected
NoTs == -1           \* Python None where a timestamp (unix seconds) is expected

(***************************************************************************)
(* Bounds of the model.                                                     *)
(***************************************************************************)
MaxEvents == 2
MaxRows == 2
MaxMail == 2
MaxNotes == 2

(***************************************************************************)
(* Contact store: ContactStore of app/api_client_csv.py, email is the key.  *)
(***************************************************************************)
Emails == {"a", "b", "c", "d"}

NoContact == [absent |-> TRUE]

COLUMNS == {"id", "contact_name", "company_name", "email", "first_name",
            "last_name", "contact_type", "created_time", "outreach_idx",
            "auto_number", "last_touch_date", "stage", "notes", "unsub",
            "into_date", "dfu1_date", "dfu2_date"}

\* The columns of a row that the tasks read or write.
Contact(stage, unsub, contact_type, first_name) ==
    [stage |-> stage, unsub |-> unsub, contact_type |-> contact_type,
     first_name |-> first_name, notes |-> <<>>,
     into_date |-> "", dfu1_date |-> "", dfu2_date |-> ""]

\* _row_index_by_email returns None for an empty email before it reads.
find_contact_by_email(cs, email) == IF email = "" THEN NoContact ELSE cs[email]

\* update_contact_by_email: the supplied fields that are columns overwrite
\* the row; every other key is dropped.
update_contact(cs, email, fields) ==
    [cs EXCEPT ![email] =
        [k \in DOMAIN cs[email] |->
            IF k \in DOMAIN fields /\ k \in COLUMNS THEN fields[k] ELSE cs[email][k]]]

append_contact_note(cs, email, note) ==
    [cs EXCEPT ![email].notes = Append(@, note)]

(***************************************************************************)
(* Status merge reducer: MailgunPerRecipient._pick_higher / _touch.         *)
(***************************************************************************)
Kinds == {"complained", "failed_permanent", "dropped", "rejected",
          "failed_temporary", "clicked", "opened", "delivered"}

STATUS_ORDER ==
    [k \in Kinds |->
        CASE k = "complained" -> 7
          [] k = "failed_permanent" -> 6
          [] k = "dropped" -> 5
          [] k = "rejected" -> 4
          [] k = "failed_temporary" -> 3
          [] k = "clicked" -> 2
          [] k = "opened" -> 1
          [] k = "delivered" -> 0]

_pick_higher_lastwins(existing, candidate) ==
    IF candidate = None THEN existing ELSE candidate

_pick_higher(existing, candidate) ==
    IF existing = None THEN candidate
    ELSE IF candidate = None THEN existing
    ELSE IF STATUS_ORDER[existing] >= STATUS_ORDER[candidate] THEN existing
    ELSE candidate

Recipients == {"", "foo"}
EventTags == {<<>>, <<"t1">>}
Timestamps == {NoTs, 10, 40}
\* delivery-status of an event: absent, or an SMTP code with its message;
\* message-id header: absent or present.
DeliveryStatuses == {[code |-> "", message |-> ""],
                     [code |-> "550", message |-> "No such user"]}
MessageIds == {"", "<m1>"}

Events ==
    {[recipient |-> r, tags |-> t, timestamp |-> ts, code |-> ds.code,
      message |-> ds.message, message_id |-> mid] :
        r \in Recipients, t \in EventTags, ts \in Timestamps,
        ds \in DeliveryStatuses, mid \in MessageIds}

Keys == {<<r, t>> : r \in Recipients, t \in {"", "t1"}}

NoRecord == [absent |-> TRUE]

record_for(recs, key) ==
    IF recs[key] = NoRecord
    THEN [date_utc |-> "d1", tag |-> key[2], recipient |-> key[1], status |-> None,
          smtp_code |-> "", smtp_message |-> "", message_id |-> "",
          first_seen |-> NoTs, last_seen |-> NoTs]
    ELSE recs[key]

\* " ".join(message.splitlines()): the lines of the message on one line.
JoinLines(message) ==
    CASE message = "No such\nuser" -> "No such user"
      [] OTHER -> message

\* first_seen and last_seen follow only the first timestamp.
touch_seen_firstonly(record, timestamp) ==
    IF record.first_seen = NoTs
    THEN [record EXCEPT !.first_seen = timestamp, !.last_seen = timestamp]
    ELSE record

\* _touch, the two tests on first_seen and last_seen.
touch_seen(record, timestamp) ==
    LET r1 == IF record.first_seen = NoTs
                 \/ (timestamp # NoTs /\ timestamp < record.first_seen)
              THEN [record EXCEPT !.first_seen = timestamp] ELSE record
    IN  IF r1.last_seen = NoTs
           \/ (timestamp # NoTs /\ timestamp > r1.last_seen)
        THEN [r1 EXCEPT !.last_seen = timestamp] ELSE r1

\* The delivery fields are set once, as the tag is.
touch_smtp_keepfirst(record, event) ==
    [record EXCEPT
        !.smtp_code = IF event.code # "" /\ @ = "" THEN event.code ELSE @,
        !.smtp_message = IF event.message # "" /\ @ = ""
                         THEN JoinLines(event.message) ELSE @,
        !.message_id = IF event.message_id # "" /\ @ = ""
                       THEN event.message_id ELSE @]

\* _touch, the three tests on code, message and message-id.
touch_smtp(record, event) ==
    LET r4 == IF event.code # ""
              THEN [record EXCEPT !.smtp_code = event.code] ELSE record
        r5 == IF event.message # ""
              THEN [r4 EXCEPT !.smtp_message = JoinLines(event.message)] ELSE r4
    IN  IF event.message_id # ""
        THEN [r5 EXCEPT !.message_id = event.message_id] ELSE r5

_touch(record, event, status) ==
    LET r1 == [record EXCEPT !.status = _pick_higher(record.status, status)]
        r3 == touch_seen(r1, event.timestamp)
        r6 == touch_smtp(r3, event)
    IN  IF event.tags # <<>> /\ r6.tag = ""
        THEN [r6 EXCEPT !.tag = event.tags[1]] ELSE r6

\* One iteration of the event loop of compute_rows_for_day: an event fetched
\* for the fetch-plan entry `status` is skipped without a recipient, else
\* merged into the record of its (recipient, first tag) key.
MergeEvent(status, event) ==
    /\ nEvents < MaxEvents
    /\ nEvents' = nEvents + 1
    /\ IF event.recipient = ""
       THEN UNCHANGED <<records, kindsSeen>>
       ELSE LET tag_value == IF event.tags # <<>> THEN event.tags[1] ELSE ""
                key == <<event.recipient, tag_value>>
            IN  /\ records' = [records EXCEPT
                                 ![key] = _touch(record_for(records, key), event, status)]
                /\ kindsSeen' = [kindsSeen EXCEPT ![key] = @ \cup {status}]

TouchEvent(status, event) ==
    /\ MergeEvent(status, event)
    /\ UNCHANGED ledgerVars
    /\ UNCHANGED storeVars
    /\ UNCHANGED crmVars

InitMerge ==
    /\ records = [k \in Keys |-> NoRecord]
    /\ kindsSeen = [k \in Keys |-> {}]
    /\ nEvents = 0
    /\ ledger = <<>>
    /\ fileExists = FALSE
    /\ lastUpsert = [pc |-> "idle", rows |-> <<>>, before |-> <<>>]
    /\ contacts = [e \in Emails |-> NoContact]
    /\ inbox = <<>>
    /\ lastOp = [op |-> "none"]
    /\ crm = <<>>
    /\ poller = Idle

NextMerge == \E status \in Kinds, event \in Events : TouchEvent(status, event)

SpecMerge == InitMerge /\ [][NextMerge]_vars

\* The kind of highest precedence in a non-empty set of kinds, by the fixed
\* order complained > failed_permanent > dropped > rejected >
\* failed_temporary > clicked > opened > delivered.
Precedence == <<"complained", "failed_permanent", "dropped", "rejected",
                "failed_temporary", "clicked", "opened", "delivered">>

Highest(S) ==
    Precedence[CHOOSE i \in 1..8 :
                  /\ Precedence[i] \in S
                  /\ \A j \in 1..(i - 1) : Precedence[j] \notin S]

\* C1: for every (recipient, tag) key that has merged at least one event, in
\* whatever order the events arrived, the record's status is the
\* highest-precedence kind among the events merged into it.
C1_StatusIsHighest ==
    \A k \in Keys :
        kindsSeen[k] # {} =>
            /\ records[k] # NoRecord
            /\ records[k].status = Highest(kindsSeen[k])

\* Two events of different precedence were merged into one key (the complaint
\* and the delivery in either order) and the record holds the higher status.
C1_Witness ==
    \E k \in Keys :
        /\ kindsSeen[k] = {"complained", "delivered"}
        /\ records[k] # NoRecord
        /\ records[k].status = "complained"
        /\ records[k].first_seen = 10
        /\ records[k].last_seen = 40
        /\ records[k].smtp_code = "550"
        /\ nEvents = 2

(***************************************************************************)
(* Idempotent ledger: MailgunPerRecipient.upsert_csv.                       *)
(***************************************************************************)
MAILGUN_TAGS_EXCLUDE == {"x"}

\* The rows compute_rows_for_day can hand to upsert_csv. A row carries the
\* nine CSV columns; the columns the ledger logic and its readers look at are
\* kept (date_utc, tag, recipient, status, smtp_message). The rows cover: one
\* key with two statuses, one tag on two dates and recipients, a second tag,
\* and an excluded tag.
Row(d, t, r, st) ==
    [date_utc |-> d, tag |-> t, recipient |-> r, status |-> st,
     smtp_message |-> IF st = "delivered" THEN "OK" ELSE "No such user"]

LedgerRows ==
    {Row("d1", "t1", "foo", "delivered"),
     Row("d1", "t1", "foo", "failed_permanent"),
     Row("d2", "t1", "bar", "delivered"),
     Row("d1", "t2", "foo", "delivered"),
     Row("d1", "t2", "bar", "failed_permanent"),
     Row("d1", "x", "foo", "delivered")}

RowSeqs(n) == UNION {[1..m -> LedgerRows] : m \in 0..n}

TagsOf(rows) == {rows[i].tag : i \in 1..Len(rows)}

excluded_never(tag_value) == FALSE

\* `if tag_value in MAILGUN_TAGS_EXCLUDE: continue`
excluded(tag_value) == tag_value \in MAILGUN_TAGS_EXCLUDE

\* Keys of incoming_by_tag in insertion order: the non-excluded tags of the
\* incoming rows in order of first appearance.
RECURSIVE TagOrder(_, _)
TagOrder(rows, acc) ==
    IF rows = <<>> THEN acc
    ELSE LET t == Head(rows).tag
         IN  IF excluded(t) \/ t \in TagsOf(acc)
             THEN TagOrder(Tail(rows), acc)
             ELSE TagOrder(Tail(rows), Append(acc, [tag |-> t]))

\* new_rows: for each incoming tag not among existing_tags, in insertion
\* order, the rows of that tag in their incoming order.
RECURSIVE NewRows(_, _, _)
NewRows(order, rows, existing_tags) ==
    IF order = <<>> THEN <<>>
    ELSE LET t == Head(order).tag
             rest == NewRows(Tail(order), rows, existing_tags)
         IN  IF t \in existing_tags THEN rest
             ELSE SelectSeq(rows, LAMBDA r : r.tag = t) \o rest

\* skipped_tags: the keys of incoming_by_tag that are among existing_tags.
skipped_tags(rows, existing_tags) ==
    {t \in TagsOf(TagOrder(rows, <<>>)) : t \in existing_tags}

\* upsert_csv of mail_utils.py, the rows it writes back: an incoming row
\* replaces the stored row of its (date_utc, tag, recipient) or is appended.
RECURSIVE mail_utils_upsert_rows(_, _)
mail_utils_upsert_rows(existing, rows) ==
    IF rows = <<>> THEN existing
    ELSE LET r == Head(rows)
             hit == {i \in 1..Len(existing) :
                        /\ existing[i].date_utc = r.date_utc
                        /\ existing[i].tag = r.tag
                        /\ existing[i].recipient = r.recipient}
         IN  IF hit # {}
             THEN mail_utils_upsert_rows([existing EXCEPT ![CHOOSE i \in hit : TRUE] = r],
                                         Tail(rows))
             ELSE mail_utils_upsert_rows(Append(existing, r), Tail(rows))

upsert_rows_bykey(existing, exists, rows) == mail_utils_upsert_rows(existing, rows)

upsert_rows_appendall(existing, exists, rows) ==
    existing \o SelectSeq(rows, LAMBDA r : r.tag \notin MAILGUN_TAGS_EXCLUDE)

\* The content of the CSV after upsert_csv(rows).
upsert_rows(existing, exists, rows) ==
    LET existing_tags == IF exists THEN TagsOf(existing) ELSE {}
    IN  existing \o NewRows(TagOrder(rows, <<>>), rows, existing_tags)

\* mailgun_update_stats: the rows computed for the day are handed to
\* upsert_csv.
CallUpsert(rows) ==
    /\ lastUpsert.pc = "idle"
    /\ lastUpsert' = [pc |-> "called", rows |-> rows, before |-> ledger]
    /\ UNCHANGED <<ledger, fileExists>>
    /\ UNCHANGED mergeVars
    /\ UNCHANGED crmVars
    /\ UNCHANGED storeVars

upsert_csv ==
    /\ lastUpsert.pc = "called"
    /\ ledger' = upsert_rows(ledger, fileExists, lastUpsert.rows)
    /\ fileExists' = (fileExists \/ ledger' # ledger)
    /\ lastUpsert' = [pc |-> "returned", rows |-> lastUpsert.rows,
                      before |-> lastUpsert.before,
                      skipped |-> skipped_tags(lastUpsert.rows,
                                               IF fileExists THEN TagsOf(ledger) ELSE {})]
    /\ UNCHANGED mergeVars
    /\ UNCHANGED crmVars
    /\ UNCHANGED storeVars

\* The run ends; the next one starts from the persisted ledger alone.
FinishUpsert ==
    /\ lastUpsert.pc = "returned"
    /\ lastUpsert' = [pc |-> "idle", rows |-> <<>>, before |-> <<>>]
    /\ UNCHANGED <<ledger, fileExists>>
    /\ UNCHANGED mergeVars
    /\ UNCHANGED crmVars
    /\ UNCHANGED storeVars

LegacyRow == Row("d1", "t1", "foo", "delivered")

\* A row stored while its tag was not yet in the exclusion set.
ExcludedRow == Row("d1", "x", "foo", "delivered")

InitLedger ==
    /\ records = [k \in Keys |-> NoRecord]
    /\ kindsSeen = [k \in Keys |-> {}]
    /\ nEvents = 0
    /\ fileExists \in BOOLEAN
    /\ ledger \in IF fileExists THEN {<<>>, <<LegacyRow>>, <<ExcludedRow>>} ELSE {<<>>}
    /\ lastUpsert = [pc |-> "idle", rows |-> <<>>, before |-> <<>>]
    /\ contacts = [e \in Emails |-> NoContact]
    /\ inbox = <<>>
    /\ lastOp = [op |-> "none"]
    /\ crm = <<>>
    /\ poller = Idle

NextLedger ==
    \/ \E rows \in RowSeqs(MaxRows) : CallUpsert(rows)
    \/ upsert_csv
    \/ FinishUpsert

SpecLedger == InitLedger /\ [][NextLedger]_vars

Count(rows, v) == Cardinality({i \in 1..Len(rows) : rows[i] = v})

IsPrefix(p, q) == Len(p) <= Len(q) /\ SubSeq(q, 1, Len(p)) = p

\* C2: after an upsert the ledger is the ledger before it followed by the
\* incoming rows whose tag was on no stored row and is not excluded (each as
\* often as it came in), and by nothing else; so an upsert whose rows all carry
\* recorded tags leaves the ledger as it was, whatever their statuses.
C2_UpsertSkipsRecordedTags ==
    lastUpsert.pc = "returned" =>
        LET before == lastUpsert.before
            rows == lastUpsert.rows
            recorded == TagsOf(before)
        IN  /\ IsPrefix(before, ledger)
            /\ \A v \in LedgerRows :
                  Count(ledger, v) =
                      Count(before, v)
                      + (IF v.tag \in recorded \/ v.tag \in MAILGUN_TAGS_EXCLUDE
                         THEN 0 ELSE Count(rows, v))
            /\ (TagsOf(rows) \subseteq recorded => ledger = before)

\* An upsert brought a row for a recorded (date, tag, recipient) with another
\* status, next to a row of a tag not yet recorded: the stored row stayed and
\* only the row of the new tag was appended.
C2_Witness ==
    /\ lastUpsert.pc = "returned"
    /\ \E i \in 1..Len(lastUpsert.rows), j \in 1..Len(lastUpsert.before) :
          /\ lastUpsert.rows[i].tag = lastUpsert.before[j].tag
          /\ lastUpsert.rows[i].recipient = lastUpsert.before[j].recipient
          /\ lastUpsert.rows[i].date_utc = lastUpsert.before[j].date_utc
          /\ lastUpsert.rows[i].status # lastUpsert.before[j].status
    /\ Len(ledger) = Len(lastUpsert.before) + 1

\* C27: an upsert appends no row whose tag is in MAILGUN_TAGS_EXCLUDE and
\* reports no excluded tag among the skipped tags, also when the ledger
\* already holds a row of that tag.
C27_ExcludedTagsAreDropped ==
    lastUpsert.pc = "returned" =>
        /\ \A i \in (Len(lastUpsert.before) + 1)..Len(ledger) :
              ledger[i].tag \notin MAILGUN_TAGS_EXCLUDE
        /\ lastUpsert.skipped \cap MAILGUN_TAGS_EXCLUDE = {}

\* An upsert brought a row of the excluded tag, which the ledger already
\* held, next to a row of a new tag: the new tag's row alone was appended
\* and nothing was reported as skipped.
C27_Witness ==
    /\ lastUpsert.pc = "returned"
    /\ lastUpsert.before = <<ExcludedRow>>
    /\ \E i \in 1..Len(lastUpsert.rows) : lastUpsert.rows[i].tag = "x"
    /\ Len(ledger) = 2
    /\ ledger[2].tag = "t2"
    /\ lastUpsert.skipped = {}

(***************************************************************************)
(* Unsubscribe poller: unsub_process_once of app/tasks/unsub_poll.py.       *)
(***************************************************************************)
Stages == {"new", "intro", "dfu1", "dfu2", "booked", "dropped", "invalid"}

MOVE_TO == "Processed/Unsubscribe"

\* A message of the scanned folder: its From address, whether
\* _looks_like_stop holds of it, its \Seen flag and the folder it is in.
Message(sender, stop) ==
    [sender |-> sender, stop |-> stop, seen |-> FALSE, folder |-> "INBOX"]

\* imap.uid("SEARCH", None, "(UNSEEN)"): the uids of the folder without \Seen,
\* in ascending order.
Unseen(ib) ==
    LET S == {u \in 1..Len(ib) : ib[u].folder = "INBOX" /\ ~ib[u].seen}
        RECURSIVE Asc(_, _)
        Asc(n, acc) == IF n > Len(ib) THEN acc
                       ELSE Asc(n + 1, IF n \in S THEN Append(acc, n) ELSE acc)
    IN  Asc(1, <<>>)

\* imap.uid("FETCH", uid, "(RFC822)") on a folder selected read-write: the
\* body is returned and the server sets \Seen on the message.
Fetch(ib, uid) == [ib EXCEPT ![uid].seen = TRUE]

move_message(ib, uid, dest) == [ib EXCEPT ![uid].folder = dest]

NoCrash == [uid |-> 0, at |-> "none"]

unsub_keeps_stage_droppedonly(stage_value) == stage_value \in {"dropped"}

\* The stages the STOP handling leaves alone.
unsub_keeps_stage(stage_value) == stage_value \in {"booked", "dropped"}

\* The loop over the unseen uids. `crash` names a uid and the store call of
\* its handling that raises (the update of unsub, the update of stage, the
\* note): the exception leaves the loop and ends the run.
RECURSIVE UnsubLoop(_, _, _, _, _)
UnsubLoop(uids, cs, ib, handled, crash) ==
    IF uids = <<>>
    THEN [contacts |-> cs, inbox |-> ib, handled |-> handled, crashed |-> 0]
    ELSE
      LET uid == Head(uids)
          sender == ib[uid].sender
          ib1 == Fetch(ib, uid)
          stop(c) == [contacts |-> c, inbox |-> ib1, handled |-> handled, crashed |-> uid]
          fails(at) == crash.uid = uid /\ crash.at = at
      IN
        IF sender = "" \/ ~ib[uid].stop
        THEN UnsubLoop(Tail(uids), cs, ib1, handled, crash)
        ELSE IF find_contact_by_email(cs, sender) = NoContact
        THEN UnsubLoop(Tail(uids), cs, ib1, handled, crash)
        ELSE IF fails("unsub") THEN stop(cs)
        ELSE
          LET cs1 == update_contact(cs, sender, [unsub |-> "True"])
              stage_value == cs1[sender].stage
          IN
            IF ~unsub_keeps_stage(stage_value) /\ fails("stage") THEN stop(cs1)
            ELSE
              LET cs2 == IF ~unsub_keeps_stage(stage_value)
                         THEN update_contact(cs1, sender, [stage |-> "dropped"])
                         ELSE cs1
              IN
                IF fails("note") THEN stop(cs2)
                ELSE UnsubLoop(Tail(uids),
                               append_contact_note(cs2, sender, "Unsubscribed"),
                               move_message(ib1, uid, MOVE_TO),
                               handled \cup {uid}, crash)

NotesWithin(cs) ==
    \A e \in Emails : cs[e] # NoContact => Len(cs[e].notes) <= MaxNotes

\* The task process ends: what the run was given is gone, the contacts CSV
\* and the mailbox stay.
TaskExit ==
    /\ lastOp.op # "none"
    /\ lastOp' = [op |-> "none"]
    /\ UNCHANGED <<contacts, inbox>>
    /\ UNCHANGED mergeVars
    /\ UNCHANGED crmVars
    /\ UNCHANGED ledgerVars

unsub_process_once(crash) ==
    LET run == UnsubLoop(Unseen(inbox), contacts, inbox, {}, crash)
    IN  /\ lastOp.op = "none"
        /\ NotesWithin(run.contacts)
        /\ contacts' = run.contacts
        /\ inbox' = run.inbox
        /\ lastOp' = [op |-> "unsub", handled |-> run.handled, crashed |-> run.crashed]
        /\ UNCHANGED mergeVars
        /\ UNCHANGED crmVars
        /\ UNCHANGED ledgerVars

Crashes ==
    {NoCrash} \cup [uid : 1..MaxMail, at : {"unsub", "stage", "note"}]

MailSeqs(senders) ==
    UNION {[1..m -> {Message(sd, st) : sd \in senders, st \in BOOLEAN}] :
             m \in 0..MaxMail}

InitUnsub ==
    /\ records = [k \in Keys |-> NoRecord]
    /\ kindsSeen = [k \in Keys |-> {}]
    /\ nEvents = 0
    /\ ledger = <<>>
    /\ fileExists = FALSE
    /\ lastUpsert = [pc |-> "idle", rows |-> <<>>, before |-> <<>>]
    /\ \E st \in Stages, u \in {"false", "True"} :
          contacts = [e \in Emails |->
                        CASE e = "a" -> Contact(st, u, "personal", "A")
                          [] e = "b" -> Contact("new", "false", "personal", "B")
                          [] e = "c" -> NoContact
                          [] e = "d" -> Contact("new", "True", "personal", "D")]
    /\ inbox \in MailSeqs({"a", "c"})
    /\ lastOp = [op |-> "none"]
    /\ crm = <<>>
    /\ poller = Idle

NextUnsub ==
    \/ \E crash \in Crashes : unsub_process_once(crash)
    \/ TaskExit

SpecUnsub == InitUnsub /\ [][NextUnsub]_vars

\* The uids the last unsubscribe run handled to the end for sender e.
HandledFor(op, ib, e) == {u \in op.handled : ib[u].sender = e}

RECURSIVE Repeat(_, _)
Repeat(x, n) == IF n = 0 THEN <<>> ELSE Append(Repeat(x, n - 1), x)

\* C3: in every unsubscribe run, a sender with a contact whose STOP message
\* was handled ends with unsub = "True" and one more note per handled message,
\* whatever its stage was; its stage becomes dropped if it was neither booked
\* nor dropped, and is unchanged otherwise (booked stays booked).
C3_UnsubMarksAndGuardsStage ==
    [][lastOp'.op = "unsub" =>
          \A e \in Emails :
              LET n == Cardinality(HandledFor(lastOp', inbox, e))
              IN  n > 0 =>
                    /\ contacts[e] # NoContact
                    /\ contacts'[e].unsub = "True"
                    /\ contacts'[e].notes = contacts[e].notes \o Repeat("Unsubscribed", n)
                    /\ (contacts'[e].stage = "dropped")
                          <=> (contacts[e].stage \notin {"booked"})
                    /\ (contacts[e].stage \in {"booked", "dropped"}
                          => contacts'[e].stage = contacts[e].stage)]_vars

\* C21: an unsubscribe run that handles a STOP message of a contact whose
\* stage is booked, dropped or invalid leaves the stage as it was, sets
\* unsub = "True" and appends a note.
C21_TerminalStageKept ==
    [][lastOp'.op = "unsub" =>
          \A e \in Emails :
              (/\ HandledFor(lastOp', inbox, e) # {}
               /\ contacts[e] # NoContact
               /\ contacts[e].stage \in {"booked", "dropped", "invalid"})
                  => /\ contacts'[e].stage = contacts[e].stage
                     /\ contacts'[e].unsub = "True"
                     /\ Len(contacts'[e].notes) > Len(contacts[e].notes)]_vars

\* A STOP message of a booked contact was handled: the contact is
\* unsubscribed, has the note, and is still booked.
C3_Witness ==
    /\ lastOp.op = "unsub"
    /\ \E u \in lastOp.handled :
          /\ contacts[inbox[u].sender].stage = "booked"
          /\ contacts[inbox[u].sender].unsub = "True"
          /\ contacts[inbox[u].sender].notes = <<"Unsubscribed">>
          /\ inbox[u].folder = MOVE_TO

(***************************************************************************)
(* Campaign dispatch: send_campaign_pipeline of                             *)
(* app/tasks/mailgun_send_campaign.py, and the earlier pipeline of          *)
(* app/tasks/mail_send_from_mailgun.py.                                     *)
(***************************************************************************)
CampaignStages == {"intro", "dfu1", "dfu2"}

\* str.lower() on the values the unsub, contact_type and stage fields take.
Lower(v) ==
    CASE v = "True" -> "true"
      [] v = "False" -> "false"
      [] v = "Personal" -> "personal"
      [] v = "Booked" -> "booked"
      [] v = "Intro" -> "intro"
      [] v = "Dropped" -> "dropped"
      [] v = "New" -> "new"
      [] OTHER -> v

STAGE_CONFIGS ==
    [st \in CampaignStages |->
        CASE st = "intro" ->
               [contact_rules |-> <<[key |-> "stage", comp |-> "is", value |-> {"new"}]>>,
                contact_update |-> [stage |-> "intro", intro_date |-> "now"]]
          [] st = "dfu1" ->
               [contact_rules |-> <<[key |-> "stage", comp |-> "is", value |-> {"intro"}]>>,
                contact_update |-> [stage |-> "dfu1", dfu1_date |-> "now"]]
          [] st = "dfu2" ->
               [contact_rules |-> <<[key |-> "stage", comp |-> "is", value |-> {"dfu1"}]>>,
                contact_update |-> [stage |-> "dfu2", dfu2_date |-> "now"]]]

\* STAGE_CONFIGS of app/tasks/mail_send_from_mailgun.py.
STAGE_CONFIGS_old ==
    [st \in CampaignStages |->
        CASE st = "intro" ->
               [contact_rules |-> <<[key |-> "stage", comp |-> "not_in",
                                     value |-> {"intro", "booked", "dropped"}]>>,
                contact_update |-> [stage |-> "intro", intro_date |-> "now",
                                    dfu1_date |-> "now+DFU1_DELTA"]]
          [] st = "dfu1" ->
               [contact_rules |-> <<[key |-> "stage", comp |-> "is", value |-> {"intro"}]>>,
                contact_update |-> [stage |-> "dfu1", dfu2_date |-> "now+DFU2_DELTA"]]
          [] st = "dfu2" ->
               [contact_rules |-> <<[key |-> "stage", comp |-> "is", value |-> {"dfu1"}]>>,
                contact_update |-> [stage |-> "dfu2"]]]

\* A rule (key, comp, value): "is"/"is_not" compare with the one value,
\* "in"/"not_in" test membership in the listed values.
_verify_contact_rules(contact, contact_rules) ==
    \A i \in 1..Len(contact_rules) :
        LET r == contact_rules[i]
        IN  \/ r.comp = "is" /\ {contact[r.key]} = r.value
            \/ r.comp = "is_not" /\ {contact[r.key]} # r.value
            \/ r.comp = "in" /\ contact[r.key] \in r.value
            \/ r.comp = "not_in" /\ contact[r.key] \notin r.value

unsub_skips_onlytrue(cs, email) == Lower(cs[email].unsub) = "true"

\* get_contact_field(email, "unsub").lower() != "false"
unsub_skips(cs, email) == Lower(cs[email].unsub) # "false"

\* The loop that fills valid_contacts, a dict keyed by email: the candidates
\* that pass every check, in order of first appearance.
RECURSIVE ValidContacts(_, _, _, _, _)
ValidContacts(emails, cs, config, personal_mail, valid) ==
    IF emails = <<>> THEN valid
    ELSE
      LET email == Head(emails)
          contact == find_contact_by_email(cs, email)
          rest(v) == ValidContacts(Tail(emails), cs, config, personal_mail, v)
      IN  IF contact = NoContact THEN rest(valid)
          ELSE IF unsub_skips(cs, email) THEN rest(valid)
          ELSE IF personal_mail /\ Lower(contact.contact_type) # "personal" THEN rest(valid)
          ELSE IF ~_verify_contact_rules(contact, config.contact_rules) THEN rest(valid)
          ELSE IF \E i \in 1..Len(valid) : valid[i] = email THEN rest(valid)
          ELSE rest(Append(valid, email))

Range(q) == {q[i] : i \in 1..Len(q)}

RECURSIVE UpdateAll(_, _, _)
UpdateAll(cs, receivers, fields) ==
    IF receivers = {} THEN cs
    ELSE LET e == CHOOSE x \in receivers : TRUE
         IN  UpdateAll(update_contact(cs, e, fields), receivers \ {e}, fields)

\* send_message is the collaborator that mails the valid contacts: it raises
\* (outcome.ok = FALSE) or returns the receivers it mailed.
send_campaign_pipeline(stage, emails, dry_run, personal_mail, outcome) ==
    LET config == STAGE_CONFIGS[stage]
        valid == ValidContacts(emails, contacts, config, personal_mail, <<>>)
        op == [op |-> "dispatch", pipeline |-> "new", stage |-> stage,
               dry_run |-> dry_run, personal_mail |-> personal_mail,
               candidates |-> Range(emails), valid |-> Range(valid),
               would_send |-> Len(valid), send_calls |-> 0, sent |-> {}]
    IN  /\ lastOp.op = "none"
        /\ outcome.receivers \subseteq Range(valid)
        /\ IF dry_run
           THEN /\ outcome = [ok |-> TRUE, receivers |-> {}]
                /\ contacts' = contacts
                /\ lastOp' = op
           ELSE IF ~outcome.ok
           THEN /\ outcome.receivers = {}
                /\ contacts' = contacts
                /\ lastOp' = [op EXCEPT !.send_calls = 1, !.sent = {}]
           ELSE /\ contacts' = UpdateAll(contacts, outcome.receivers, config.contact_update)
                /\ lastOp' = [op EXCEPT !.send_calls = 1, !.sent = outcome.receivers]
        /\ UNCHANGED inbox
        /\ UNCHANGED mergeVars
        /\ UNCHANGED crmVars
        /\ UNCHANGED ledgerVars

\* send_mailgun_message of app/mailgun_util.py for one recipient: an
\* unsubscribed recipient is filtered out and nothing is posted; else the
\* message is posted, which raises for the recipients in `failing`.
Posted(cs, email, failing) ==
    Lower(cs[email].unsub) # "true" /\ email \notin failing

old_update_always(cs, email, config, dry_run) ==
    update_contact(cs, email, config.contact_update)

\* `if not dry_run: update_contact(...)` of the earlier pipeline; a dry run
\* only prints what it would update.
old_update(cs, email, config, dry_run) ==
    IF dry_run THEN cs ELSE update_contact(cs, email, config.contact_update)

\* The per-candidate loop of the earlier pipeline.
RECURSIVE OldLoop(_, _, _, _, _, _)
OldLoop(emails, cs, config, dry_run, failing, acc) ==
    IF emails = <<>> THEN [acc EXCEPT !.contacts = cs]
    ELSE
      LET email == Head(emails)
          contact == find_contact_by_email(cs, email)
          rest(c, a) == OldLoop(Tail(emails), c, config, dry_run, failing, a)
      IN  IF contact = NoContact THEN rest(cs, acc)
          ELSE IF ~_verify_contact_rules(contact, config.contact_rules) THEN rest(cs, acc)
          ELSE
            LET cs1 == old_update(cs, email, config, dry_run)
                acc1 == [acc EXCEPT !.valid = @ \cup {email}]
            IN  IF dry_run
                THEN rest(cs1, [acc1 EXCEPT !.would_send = @ + 1])
                ELSE rest(cs1, [acc1 EXCEPT
                                  !.send_calls = @ + 1,
                                  !.sent = IF Posted(cs1, email, failing)
                                           THEN @ \cup {email} ELSE @])

send_campaign_pipeline_old(stage, emails, dry_run, failing) ==
    LET run == OldLoop(emails, contacts, STAGE_CONFIGS_old[stage], dry_run, failing,
                       [contacts |-> contacts, valid |-> {}, would_send |-> 0,
                        send_calls |-> 0, sent |-> {}])
    IN  /\ lastOp.op = "none"
        /\ contacts' = run.contacts
        /\ lastOp' = [op |-> "dispatch", pipeline |-> "old", stage |-> stage,
                      dry_run |-> dry_run, personal_mail |-> FALSE,
                      candidates |-> Range(emails), valid |-> run.valid,
                      would_send |-> run.would_send, send_calls |-> run.send_calls,
                      sent |-> run.sent]
        /\ UNCHANGED inbox
        /\ UNCHANGED mergeVars
        /\ UNCHANGED crmVars
        /\ UNCHANGED ledgerVars

\* Candidate lists handed to a dispatch: two valid contacts with an
\* unsubscribed and an unknown address, a repeated address, an unknown
\* address before a valid one.
CandidateLists ==
    {<<"a", "b", "d", "c">>, <<"a", "a">>, <<"c", "b">>}

SendOutcomes == [ok : BOOLEAN, receivers : SUBSET Emails]

InitDispatch ==
    /\ records = [k \in Keys |-> NoRecord]
    /\ kindsSeen = [k \in Keys |-> {}]
    /\ nEvents = 0
    /\ ledger = <<>>
    /\ fileExists = FALSE
    /\ lastUpsert = [pc |-> "idle", rows |-> <<>>, before |-> <<>>]
    /\ \E st \in Stages, u \in {"false", "True", ""}, ct \in {"personal", "company"} :
          contacts = [e \in Emails |->
                        CASE e = "a" -> Contact(st, u, ct, "A")
                          [] e = "b" -> Contact("new", "false", "personal", "B")
                          [] e = "c" -> NoContact
                          [] e = "d" -> Contact("new", "True", "personal", "D")]
    /\ inbox = <<>>
    /\ lastOp = [op |-> "none"]
    /\ crm = <<>>
    /\ poller = Idle

NextDispatch ==
    \/ \E stage \in CampaignStages, emails \in CandidateLists, dry_run \in BOOLEAN,
          personal_mail \in BOOLEAN, outcome \in SendOutcomes :
            send_campaign_pipeline(stage, emails, dry_run, personal_mail, outcome)
    \/ TaskExit

SpecDispatch == InitDispatch /\ [][NextDispatch]_vars

\* send_campaign_pipeline, not a dry run, with a contact_lookup whose record
\* for the candidates in `lacking` has no column of the column_map:
\* _build_template_params raises ValueError for the first such candidate
\* that passed the checks, inside the loop that fills valid_contacts, and
\* nothing catches it.
send_campaign_pipeline_lookup(stage, emails, lacking, outcome) ==
    LET config == STAGE_CONFIGS[stage]
        valid == ValidContacts(emails, contacts, config, TRUE, <<>>)
    IN  IF Range(valid) \cap lacking = {}
        THEN send_campaign_pipeline(stage, emails, FALSE, TRUE, outcome)
        ELSE /\ lastOp.op = "none"
             /\ outcome = [ok |-> TRUE, receivers |-> {}]
             /\ lastOp' = [op |-> "dispatch", pipeline |-> "new", stage |-> stage,
                           dry_run |-> FALSE, personal_mail |-> TRUE,
                           candidates |-> Range(emails), valid |-> Range(valid),
                           lacking |-> lacking, raised |-> TRUE,
                           would_send |-> 0, send_calls |-> 0, sent |-> {}]
             /\ UNCHANGED <<contacts, inbox>>
             /\ UNCHANGED mergeVars
             /\ UNCHANGED crmVars
             /\ UNCHANGED ledgerVars

NextColumns ==
    \/ \E stage \in CampaignStages, emails \in CandidateLists,
          lacking \in SUBSET {"a", "b"}, outcome \in SendOutcomes :
            send_campaign_pipeline_lookup(stage, emails, lacking, outcome)
    \/ TaskExit

SpecColumns == InitDispatch /\ [][NextColumns]_vars

\* C24: in a dispatch that is not a dry run, a candidate whose record lacks
\* a required column is skipped alone: when another candidate passed the
\* checks, the send is still called for it.
C24_MissingColumnSkipsOne ==
    [][(lastOp'.op = "dispatch" /\ "lacking" \in DOMAIN lastOp')
          => (lastOp'.valid \ lastOp'.lacking # {} => lastOp'.send_calls = 1)]_vars

\* C5: a non-dry-run dispatch changes the stage or date fields of a contact
\* only if the send that included the contact succeeded.
C5_NoUpdateWithoutSend ==
    [][(lastOp'.op = "dispatch" /\ ~lastOp'.dry_run) =>
          \A e \in Emails :
              contacts'[e] # contacts[e] => e \in lastOp'.sent]_vars

\* The stage S requires this prior stage.
PriorStage(S) ==
    CASE S = "intro" -> "new" [] S = "dfu1" -> "intro" [] S = "dfu2" -> "dfu1"

\* C10: a dispatch of mailgun_send_campaign selects exactly the candidates
\* that have a contact, whose unsub is false, whose stage is the prior stage
\* the campaign stage requires and, for a personal campaign, whose
\* contact_type is personal; nothing is sent outside the selection, and a dry
\* run reports the size of the selection and sends nothing.
C10_DispatchSelectsEligible ==
    [][(lastOp'.op = "dispatch" /\ lastOp'.pipeline = "new") =>
          /\ lastOp'.valid =
                {e \in lastOp'.candidates :
                    /\ contacts[e] # NoContact
                    /\ contacts[e].unsub \in {"false", "False"}
                    /\ contacts[e].stage = PriorStage(lastOp'.stage)
                    /\ (lastOp'.personal_mail
                          => contacts[e].contact_type \in {"personal", "Personal"})}
          /\ lastOp'.sent \subseteq lastOp'.valid
          /\ lastOp'.would_send = Cardinality(lastOp'.valid)
          /\ (lastOp'.dry_run => lastOp'.sent = {} /\ lastOp'.send_calls = 0)]_vars

\* A dry run over two valid, one unsubscribed and one unknown candidate
\* reported two would-send actions.
C10_Witness ==
    /\ lastOp.op = "dispatch"
    /\ lastOp.pipeline = "new"
    /\ lastOp.dry_run
    /\ lastOp.candidates = {"a", "b", "c", "d"}
    /\ lastOp.valid = {"a", "b"}
    /\ lastOp.would_send = 2
    /\ lastOp.send_calls = 0
    /\ contacts["d"].unsub = "True"
    /\ contacts["c"] = NoContact

smtp_skips_never(stage_value) == FALSE

\* The test that makes the loop pass over a row: the contact is invalid.
smtp_skips(stage_value) == stage_value = "invalid"

(***************************************************************************)
(* SMTP-bounce reconciliation (app/utils.py) and calendar bookings          *)
(* (app/tasks/cal_bookings_trigger.py), with the other tasks that write the *)
(* stage of a contact.                                                      *)
(***************************************************************************)
\* check_and_update_smtp_errors over the rows of the per-recipient CSV, in
\* file order. get_contact_field asserts that the recipient has a contact,
\* so a row of an unknown recipient ends the run where it stands. An empty
\* smtp_message is read by pandas as NaN: it differs from "OK", the contact
\* is updated, and smtp_message[:20] raises before the note is appended.
RECURSIVE SmtpLoop(_, _, _)
SmtpLoop(rows, cs, updates) ==
    IF rows = <<>> THEN [contacts |-> cs, updates |-> updates, crashed |-> FALSE]
    ELSE
      LET row == Head(rows)
          recipient == row.recipient
          cs1 == update_contact(cs, recipient, [stage |-> "invalid", unsub |-> "True"])
      IN  IF row.smtp_message = "OK" THEN SmtpLoop(Tail(rows), cs, updates)
          ELSE IF find_contact_by_email(cs, recipient) = NoContact
          THEN [contacts |-> cs, updates |-> updates, crashed |-> TRUE]
          ELSE IF smtp_skips(cs[recipient].stage) THEN SmtpLoop(Tail(rows), cs, updates)
          ELSE IF row.smtp_message = ""
          THEN [contacts |-> cs1, updates |-> updates \cup {recipient}, crashed |-> TRUE]
          ELSE SmtpLoop(Tail(rows), append_contact_note(cs1, recipient, "SMTP error"),
                        updates \cup {recipient})

check_and_update_smtp_errors ==
    LET run == SmtpLoop(ledger, contacts, {})
    IN  /\ lastOp.op = "none"
        /\ fileExists
        /\ NotesWithin(run.contacts)
        /\ contacts' = run.contacts
        /\ lastOp' = [op |-> "smtp", updates |-> run.updates, crashed |-> run.crashed]
        /\ UNCHANGED inbox
        /\ UNCHANGED mergeVars
        /\ UNCHANGED crmVars
        /\ UNCHANGED ledgerVars

\* A booking as the calendar returns it: the attendee's email and first name.
Booking(email, firstName) == [email |-> email, firstName |-> firstName]

\* The bookings loop of process_bookings_once. _ensure_contact comes first:
\* it writes the booking's names into an existing row, and for an unknown
\* attendee calls add_contact, which rejects the payload because "company"
\* is not a column. The handler of the loop then prints `email`, which is
\* unbound until one booking of the run has got past _ensure_contact, so the
\* run ends there; otherwise the loop goes on to the next booking.
RECURSIVE BookingsLoop(_, _, _, _, _)
BookingsLoop(bookings, cs, DRY_RUN, handled, email_bound) ==
    IF bookings = <<>> THEN [contacts |-> cs, handled |-> handled, crashed |-> FALSE]
    ELSE
      LET appt == Head(bookings)
          payload == [email |-> appt.email, first_name |-> appt.firstName,
                      company |-> ""]
          rest(c, h, b) == BookingsLoop(Tail(bookings), c, DRY_RUN, h, b)
      IN  IF find_contact_by_email(cs, appt.email) = NoContact
          THEN IF \E k \in DOMAIN payload : k \notin COLUMNS
               THEN IF email_bound THEN rest(cs, handled, email_bound)
                    ELSE [contacts |-> cs, handled |-> handled, crashed |-> TRUE]
               ELSE rest(cs, handled, email_bound)
          ELSE
            LET cs1 == update_contact(cs, appt.email, payload)
            IN  IF Lower(cs1[appt.email].stage) = "booked" THEN rest(cs1, handled, TRUE)
                ELSE IF DRY_RUN THEN rest(cs1, handled, TRUE)
                ELSE rest(update_contact(cs1, appt.email, [stage |-> "booked"]),
                          handled \cup {appt.email}, TRUE)

process_bookings_once(bookings, DRY_RUN) ==
    LET run == BookingsLoop(bookings, contacts, DRY_RUN, {}, FALSE)
    IN  /\ lastOp.op = "none"
        /\ contacts' = run.contacts
        /\ lastOp' = [op |-> "booking", bookings |-> bookings, dry_run |-> DRY_RUN,
                      handled |-> run.handled, crashed |-> run.crashed]
        /\ UNCHANGED inbox
        /\ UNCHANGED mergeVars
        /\ UNCHANGED crmVars
        /\ UNCHANGED ledgerVars

\* Bookings the calendar returns in one run: the known attendee under the
\* stored and under another first name, and an unknown attendee or a
\* booking with a blank email before or after the known one.
BookingLists ==
    {<<Booking("a", "A")>>, <<Booking("a", "Z")>>,
     <<Booking("c", "C"), Booking("a", "A")>>,
     <<Booking("a", "A"), Booking("c", "C")>>,
     <<Booking("", "X"), Booking("a", "A")>>,
     <<Booking("a", "A"), Booking("", "X")>>}

\* Per-recipient CSVs the reconciliation reads.
StageLedgers ==
    {<<Row("d1", "t1", "a", "failed_permanent")>>,
     <<Row("d1", "t1", "a", "delivered"), Row("d1", "t1", "b", "delivered")>>,
     <<Row("d1", "t1", "c", "failed_permanent"), Row("d1", "t2", "a", "failed_permanent")>>,
     <<Row("d1", "t1", "a", "failed_permanent"), Row("d1", "t2", "a", "failed_permanent"),
       Row("d1", "t1", "b", "failed_permanent")>>,
     <<[Row("d1", "t1", "a", "opened") EXCEPT !.smtp_message = ""],
       Row("d1", "t1", "b", "failed_permanent")>>}

InitStage ==
    /\ records = [k \in Keys |-> NoRecord]
    /\ kindsSeen = [k \in Keys |-> {}]
    /\ nEvents = 0
    /\ ledger \in StageLedgers
    /\ fileExists = TRUE
    /\ lastUpsert = [pc |-> "idle", rows |-> <<>>, before |-> <<>>]
    /\ \E st \in Stages, u \in {"false", "True"} :
          contacts = [e \in Emails |->
                        CASE e = "a" -> Contact(st, u, "personal", "A")
                          [] e = "b" -> Contact("new", "false", "personal", "B")
                          [] e = "c" -> NoContact
                          [] e = "d" -> Contact("new", "True", "personal", "D")]
    /\ inbox \in {<<>>, <<Message("a", TRUE)>>}
    /\ lastOp = [op |-> "none"]
    /\ crm = <<>>
    /\ poller = Idle

NextStage ==
    \/ \E crash \in {NoCrash} : unsub_process_once(crash)
    \/ \E stage \in CampaignStages, dry_run \in BOOLEAN,
          outcome \in [ok : BOOLEAN, receivers : SUBSET {"a"}] :
            send_campaign_pipeline(stage, <<"a">>, dry_run, TRUE, outcome)
    \/ \E stage \in CampaignStages, dry_run \in BOOLEAN, failing \in SUBSET {"a"} :
            send_campaign_pipeline_old(stage, <<"a", "d">>, dry_run, failing)
    \/ check_and_update_smtp_errors
    \/ \E bookings \in BookingLists, DRY_RUN \in BOOLEAN :
            process_bookings_once(bookings, DRY_RUN)
    \/ TaskExit

SpecStage == InitStage /\ [][NextStage]_vars

\* C4: once the stage of a contact is booked, no automated operation changes
\* it to another stage.
C4_BookedIsKept ==
    [][\A e \in Emails :
          (contacts[e] # NoContact /\ contacts[e].stage = "booked")
              => (contacts'[e] # NoContact /\ contacts'[e].stage = "booked")]_vars

\* The recipient has a ledger row whose smtp_message is an SMTP answer
\* other than "OK".
NonOk(rows, e) ==
    \E i \in 1..Len(rows) :
        rows[i].recipient = e /\ rows[i].smtp_message \notin {"OK", ""}

C23_BatchGoesOnAfterItemError ==
    [][lastOp'.op = "smtp" =>
          \A e \in Emails :
              (contacts[e] # NoContact /\ NonOk(ledger, e)
                 /\ contacts[e].stage # "invalid")
                  => contacts'[e].stage = "invalid"]_vars

\* C25: _ensure_contact, when the lookup finds the attendee's contact,
\* returns it without writing to the store: a bookings run leaves the
\* names of every existing contact as they were.
C25_FoundContactIsNotWritten ==
    [][lastOp'.op = "booking" =>
          \A e \in Emails :
              contacts[e] # NoContact =>
                  contacts'[e].first_name = contacts[e].first_name]_vars

\* C34: a booking without a customer email is skipped as unusable: the run
\* of process_bookings_once goes on past it, and every other booking of a
\* known, not yet booked attendee is applied.
C34_BlankEmailIsSkipped ==
    (/\ lastOp.op = "booking"
     /\ \E i \in 1..Len(lastOp.bookings) : lastOp.bookings[i].email = "")
    => /\ ~lastOp.crashed
       /\ \A i \in 1..Len(lastOp.bookings) :
             LET e == lastOp.bookings[i].email
             IN  (e # "" /\ contacts[e] # NoContact /\ ~lastOp.dry_run)
                 => Lower(contacts[e].stage) = "booked"

\* C11: a dry-run dispatch, of either pipeline and for any candidate list,
\* makes no send call and leaves every contact as it was.
C11_DryRunTouchesNothing ==
    [][(lastOp'.op = "dispatch" /\ lastOp'.dry_run) =>
          /\ contacts' = contacts
          /\ lastOp'.send_calls = 0
          /\ lastOp'.sent = {}]_vars

\* A dry run of the earlier pipeline that found a candidate to send to.
C11_Witness ==
    /\ lastOp.op = "dispatch"
    /\ lastOp.dry_run
    /\ lastOp.pipeline = "old"
    /\ lastOp.would_send >= 1
    /\ lastOp.send_calls = 0
    /\ \E e \in lastOp.valid : contacts[e].stage = "new"

\* C12: a dispatch for stage S changes the stage of a contact only from the
\* prior stage S requires (intro from new, dfu1 from intro, dfu2 from dfu1),
\* and then to S.
C12_StageOnlyFromPriorStage ==
    [][lastOp'.op = "dispatch" =>
          \A e \in Emails :
              (contacts[e] # NoContact /\ contacts'[e].stage # contacts[e].stage)
                  => /\ contacts[e].stage = PriorStage(lastOp'.stage)
                     /\ contacts'[e].stage = lastOp'.stage]_vars

\* C7: a booking for a contact whose stage is already booked writes no
\* field of that contact.
C7_BookedBookingWritesNothing ==
    [][(lastOp'.op = "booking" /\ ~lastOp'.crashed) =>
          \A e \in Emails :
              (contacts[e] # NoContact /\ contacts[e].stage = "booked")
                  => contacts'[e] = contacts[e]]_vars

(***************************************************************************)
(* Booking-mail poller (app/tasks/mail_bookings_trigger.py) against the     *)
(* CRM, one step per call the poller makes to the mailbox or the CRM.       *)
(***************************************************************************)
num_tries == 3
POLLS == 20
MOVE_BOOKING_TO == "Processed/Bookings"

\* A Contact of the CRM: whether the search API returns it yet, its Status
\* field, and the Stage of each pipeline record linked to it.
CrmContact(searchable, Status, stages) ==
    [searchable |-> searchable, Status |-> Status, stages |-> stages]

\* A mail of the booking folder: whether its subject is that of a booking
\* and the customer email parse_mail finds in its body.
BookingMail(booking, customer_email) ==
    [sender |-> "calendar", stop |-> FALSE, seen |-> FALSE, folder |-> "INBOX",
     booking |-> booking, customer_email |-> customer_email]

\* search_contact_by_email: the first Contact the search returns, 0 for None.
search_contact_by_email(c) ==
    IF \E i \in 1..Len(c) : c[i].searchable
    THEN CHOOSE i \in 1..Len(c) :
            c[i].searchable /\ \A j \in 1..(i - 1) : ~c[j].searchable
    ELSE 0

\* The CRM's index catches up with the oldest Contact it has not indexed.
Index ==
    /\ \E i \in 1..Len(crm) :
          /\ ~crm[i].searchable
          /\ \A j \in 1..(i - 1) : crm[j].searchable
          /\ crm' = [crm EXCEPT ![i].searchable = TRUE]
    /\ UNCHANGED poller
    /\ UNCHANGED mergeVars
    /\ UNCHANGED ledgerVars
    /\ UNCHANGED storeVars

\* The end of one pass of the loop over uids: the finally clause moves the
\* message if it was marked processed, and the loop goes to the next uid.
EndMessage(r, processed) ==
    /\ inbox' = IF processed
                THEN [inbox EXCEPT ![r.uid].folder = MOVE_BOOKING_TO]
                ELSE inbox
    /\ poller' = [r EXCEPT !.pc = "loop", !.uids = Tail(@), !.processed = processed]

\* process_bookings_once up to the loop: the UNSEEN search.
process_bookings_start ==
    /\ poller.pc = "idle"
    /\ Unseen(inbox) # <<>>
    /\ poller' = [Idle EXCEPT !.pc = "loop", !.uids = Unseen(inbox)]
    /\ UNCHANGED <<crm, inbox, contacts, lastOp>>
    /\ UNCHANGED mergeVars
    /\ UNCHANGED ledgerVars

\* The head of the loop: FETCH of the next uid and the subject test; after
\* the last uid the function returns.
process_bookings_fetch ==
    /\ poller.pc = "loop"
    /\ IF poller.uids = <<>>
       THEN /\ poller' = Idle
            /\ UNCHANGED inbox
       ELSE LET uid == Head(poller.uids)
            IN  /\ inbox' = Fetch(inbox, uid)
                /\ poller' = IF inbox[uid].booking
                             THEN [poller EXCEPT !.pc = "is_booked", !.uid = uid,
                                                 !.processed = FALSE]
                             ELSE [poller EXCEPT !.uids = Tail(@), !.uid = uid,
                                                 !.processed = FALSE]
    /\ UNCHANGED <<crm, contacts, lastOp>>
    /\ UNCHANGED mergeVars
    /\ UNCHANGED ledgerVars

\* _is_already_booked and the two tests that follow it. A failing CRM call
\* is caught inside and the function returns None, which the caller reads
\* as "not booked".
_is_already_booked(api_fails) ==
    LET email_addr == inbox[poller.uid].customer_email
        contact == search_contact_by_email(crm)
        booked == /\ email_addr # ""
                  /\ ~api_fails
                  /\ contact # 0
                  /\ \E k \in 1..Len(crm[contact].stages) :
                        Lower(crm[contact].stages[k]) = "booked"
    IN  /\ poller.pc = "is_booked"
        /\ IF booked THEN EndMessage(poller, TRUE)
           ELSE IF email_addr = "" THEN EndMessage(poller, FALSE)
           ELSE /\ poller' = [poller EXCEPT !.pc = "ensure", !.tries = 0, !.polls = 0,
                                             !.data_ok = FALSE, !.result = "none",
                                             !.exhausted = FALSE, !.posts = 0]
                /\ UNCHANGED inbox
        /\ UNCHANGED <<crm, contacts, lastOp>>
        /\ UNCHANGED mergeVars
        /\ UNCHANGED ledgerVars

\* The except clause of _ensure_contact: the exception is printed and the
\* next try starts; after the last try the function falls off its end and
\* returns None.
NextTry(r) ==
    IF r.tries + 1 = num_tries
    THEN [r EXCEPT !.tries = @ + 1, !.pc = "ensured", !.result = "None"]
    ELSE [r EXCEPT !.tries = @ + 1, !.pc = "ensure"]

\* _ensure_contact, start of a try: the first search.
_ensure_contact_search(api_fails) ==
    /\ poller.pc = "ensure"
    /\ poller' = IF api_fails THEN NextTry(poller)
                 ELSE IF search_contact_by_email(crm) # 0
                 THEN [poller EXCEPT !.pc = "ensured", !.result = "contact"]
                 ELSE [poller EXCEPT !.pc = "post"]
    /\ UNCHANGED <<crm, inbox, contacts, lastOp>>
    /\ UNCHANGED mergeVars
    /\ UNCHANGED ledgerVars

\* _ensure_contact: the create request. The CRM creates the Contact and
\* answers "success", or answers with another status, or the call raises.
_ensure_contact_post(outcome) ==
    /\ poller.pc = "post"
    /\ \/ /\ outcome = "success"
          /\ crm' = Append(crm, CrmContact(FALSE, "", <<>>))
          /\ poller' = [poller EXCEPT !.pc = "poll", !.polls = 0, !.data_ok = TRUE,
                                      !.posts = @ + 1]
       \/ /\ outcome = "error"
          /\ crm' = crm
          /\ poller' = [poller EXCEPT !.pc = "poll", !.polls = 0, !.data_ok = FALSE,
                                      !.posts = @ + 1]
       \/ /\ outcome = "raise"
          /\ crm' = crm
          /\ poller' = NextTry([poller EXCEPT !.posts = @ + 1])
    /\ UNCHANGED <<inbox, contacts, lastOp>>
    /\ UNCHANGED mergeVars
    /\ UNCHANGED ledgerVars

\* _ensure_contact: one pass of the polling loop. When the loop runs out the
\* else clause raises ValueError inside the try.
_ensure_contact_poll(api_fails) ==
    /\ poller.pc = "poll"
    /\ poller' =
         IF api_fails THEN NextTry(poller)
         ELSE IF search_contact_by_email(crm) # 0
         THEN [poller EXCEPT !.pc = "ensured", !.polls = @ + 1,
                             !.result = IF poller.data_ok THEN "contact" ELSE "None"]
         ELSE IF poller.polls + 1 = POLLS
         THEN NextTry([poller EXCEPT !.polls = @ + 1, !.exhausted = TRUE])
         ELSE [poller EXCEPT !.polls = @ + 1]
    /\ UNCHANGED <<crm, inbox, contacts, lastOp>>
    /\ UNCHANGED mergeVars
    /\ UNCHANGED ledgerVars

\* update_contact_fields then update_records_by_contact_id, which creates a
\* pipeline record when the Contact has none; either call can raise.
MarkBooked(c, contact, outcome) ==
    CASE outcome = "contact_fails" -> c
      [] outcome = "records_fail" -> [c EXCEPT ![contact].Status = "Booked"]
      [] outcome = "ok" ->
            [c EXCEPT ![contact].Status = "Booked",
                      ![contact].stages =
                          IF @ = <<>> THEN <<"Booked">>
                          ELSE [k \in 1..Len(@) |-> "Booked"]]

\* `if c:` after _ensure_contact, with _upsert_pipeline_record, which
\* catches what its calls raise; the message is then marked processed.
_upsert_pipeline_record(outcome) ==
    /\ poller.pc = "ensured"
    /\ IF poller.result = "contact"
       THEN /\ crm' = MarkBooked(crm, search_contact_by_email(crm), outcome)
            /\ EndMessage([poller EXCEPT !.handled = @ + 1], TRUE)
       ELSE /\ outcome = "ok"
            /\ crm' = crm
            /\ EndMessage(poller, FALSE)
    /\ UNCHANGED <<contacts, lastOp>>
    /\ UNCHANGED mergeVars
    /\ UNCHANGED ledgerVars

\* Booking folders a run finds: a booking, a booking after another mail, a
\* booking without customer email before one with, two bookings of the
\* customer.
BookingInboxes ==
    {<<BookingMail(TRUE, "a")>>,
     <<BookingMail(FALSE, ""), BookingMail(TRUE, "a")>>,
     <<BookingMail(TRUE, ""), BookingMail(TRUE, "a")>>,
     <<BookingMail(TRUE, "a"), BookingMail(TRUE, "a")>>}

\* The customer is unknown to the CRM, or known with no pipeline record,
\* with one in an open stage, or already booked.
CrmStates ==
    {<<>>,
     <<CrmContact(TRUE, "", <<>>)>>,
     <<CrmContact(TRUE, "", <<"Intro">>)>>,
     <<CrmContact(TRUE, "Booked", <<"Booked">>)>>}

InitBook ==
    /\ records = [k \in Keys |-> NoRecord]
    /\ kindsSeen = [k \in Keys |-> {}]
    /\ nEvents = 0
    /\ ledger = <<>>
    /\ fileExists = FALSE
    /\ lastUpsert = [pc |-> "idle", rows |-> <<>>, before |-> <<>>]
    /\ contacts = [e \in Emails |-> NoContact]
    /\ inbox \in BookingInboxes
    /\ lastOp = [op |-> "none"]
    /\ crm \in CrmStates
    /\ poller = Idle

NextBook ==
    \/ process_bookings_start
    \/ process_bookings_fetch
    \/ \E api_fails \in BOOLEAN : _is_already_booked(api_fails)
    \/ \E api_fails \in BOOLEAN : _ensure_contact_search(api_fails)
    \/ \E outcome \in {"success", "error", "raise"} : _ensure_contact_post(outcome)
    \/ \E api_fails \in BOOLEAN : _ensure_contact_poll(api_fails)
    \/ \E outcome \in {"ok", "contact_fails", "records_fail"} :
          _upsert_pipeline_record(outcome)
    \/ Index

SpecBook == InitBook /\ [][NextBook]_vars

\* The customer's stage is booked in the CRM.
BookedInCrm ==
    \E i \in 1..Len(crm) :
        \E k \in 1..Len(crm[i].stages) : Lower(crm[i].stages[k]) = "booked"

\* C6: if the created contact has not become searchable within the polling
\* budget, _ensure_contact ends with an error, not with "no contact", and it
\* has issued one create request.
C6_ExhaustedBudgetIsAnError ==
    (poller.pc = "ensured" /\ poller.exhausted /\ search_contact_by_email(crm) = 0)
        => (poller.result = "error" /\ poller.posts <= 1)

\* C8: a booking mail is in the processed folder only if the stage update of
\* its customer has been applied.
C8_MovedOnlyWhenApplied ==
    \A uid \in 1..Len(inbox) :
        (inbox[uid].folder = MOVE_BOOKING_TO /\ inbox[uid].customer_email # "")
            => BookedInCrm

\* C9: a booking mail that a run fetched and whose stage update was not
\* applied is selected again by the next UNSEEN search.
C9_UnappliedIsSelectedAgain ==
    \A uid \in 1..Len(inbox) :
        (/\ poller.pc = "idle"
         /\ inbox[uid].booking
         /\ inbox[uid].customer_email # ""
         /\ inbox[uid].seen
         /\ ~BookedInCrm)
            => \E i \in 1..Len(Unseen(inbox)) : Unseen(inbox)[i] = uid

\* C36: one invocation of _ensure_contact issues at most one create
\* request, whatever the searches, the create and the poll answer.
C36_OneCreatePerInvocation ==
    poller.pc \in {"ensure", "post", "poll", "ensured"} => poller.posts <= 1

(***************************************************************************)
(* Sequential daily runs of collect_mailgun_day                             *)
(* (app/tasks/mailgun_update_stats.py): the events of the day are merged,   *)
(* the rows are collected and handed to upsert_csv.                         *)
(***************************************************************************)
Days == {"d1", "d2"}

\* str(timestamp), "" for None.
Str(ts) == CASE ts = NoTs -> "" [] ts = 10 -> "10" [] ts = 40 -> "40"

\* The closing loop of compute_rows_for_day on one record: a missing status
\* becomes "unknown", first_seen and last_seen become strings. record_for
\* stamps every record of the run with the run's day.
final_row(record, day) ==
    [record EXCEPT !.date_utc = day,
                   !.status = IF @ = None THEN "unknown" ELSE @,
                   !.first_seen = Str(@),
                   !.last_seen = Str(@)]

\* The events the event source returns in these runs.
RunEvents ==
    {[recipient |-> "foo", tags |-> t, timestamp |-> 10, code |-> "",
      message |-> "", message_id |-> ""] : t \in EventTags}

RunKinds == {"delivered", "failed_permanent"}

\* An event of the day is fetched and merged while the run collects.
FetchEvent(status, event) ==
    /\ lastUpsert.pc = "idle"
    /\ TouchEvent(status, event)

\* compute_rows_for_day returns records.values(); collect_mailgun_day hands
\* the rows to upsert_csv if there are any, else the run ends.
compute_rows_for_day(day, order) ==
    LET touched == {k \in Keys : records[k] # NoRecord}
    IN  /\ lastUpsert.pc = "idle"
        /\ Len(order) = Cardinality(touched)
        /\ Range(order) = touched
        /\ lastUpsert' =
              IF touched = {} THEN lastUpsert
              ELSE [pc |-> "called",
                    rows |-> [i \in 1..Len(order) |-> final_row(records[order[i]], day)],
                    before |-> ledger]
        /\ records' = [k \in Keys |-> NoRecord]
        /\ kindsSeen' = [k \in Keys |-> {}]
        /\ nEvents' = 0
        /\ UNCHANGED <<ledger, fileExists>>
        /\ UNCHANGED storeVars
        /\ UNCHANGED crmVars

KeyOrders == UNION {[1..n -> Keys] : n \in 0..Cardinality(Keys)}

InitRuns ==
    /\ records = [k \in Keys |-> NoRecord]
    /\ kindsSeen = [k \in Keys |-> {}]
    /\ nEvents = 0
    /\ ledger = <<>>
    /\ fileExists \in BOOLEAN
    /\ lastUpsert = [pc |-> "idle", rows |-> <<>>, before |-> <<>>]
    /\ contacts = [e \in Emails |-> NoContact]
    /\ inbox = <<>>
    /\ lastOp = [op |-> "none"]
    /\ crm = <<>>
    /\ poller = Idle

NextRuns ==
    \/ \E status \in RunKinds, event \in RunEvents : FetchEvent(status, event)
    \/ \E day \in Days, order \in KeyOrders : compute_rows_for_day(day, order)
    \/ upsert_csv
    \/ FinishUpsert

SpecRuns == InitRuns /\ [][NextRuns]_vars

\* C13: after any sequence of runs from an empty or absent ledger, no two
\* rows of the ledger share their (date, tag, recipient).
C13_OneRowPerKey ==
    \A i, j \in 1..Len(ledger) :
        (/\ ledger[i].date_utc = ledger[j].date_utc
         /\ ledger[i].tag = ledger[j].tag
         /\ ledger[i].recipient = ledger[j].recipient) => i = j

\* A later run brought the recorded key again, with another status, and the
\* ledger still holds the rows of the earlier runs only.
C13_Witness ==
    /\ lastUpsert.pc = "returned"
    /\ Len(ledger) = 2
    /\ ledger = lastUpsert.before
    /\ \E i \in 1..Len(lastUpsert.rows), j \in 1..Len(ledger) :
          /\ lastUpsert.rows[i].date_utc = ledger[j].date_utc
          /\ lastUpsert.rows[i].tag = ledger[j].tag
          /\ lastUpsert.rows[i].recipient = ledger[j].recipient
          /\ lastUpsert.rows[i].status # ledger[j].status

(***************************************************************************)
(* Overlapping invocations of upsert_csv on one CSV file. The file is the   *)
(* sequence of its lines, the header line included; an invocation reads the *)
(* file, then opens it for append and writes.                               *)
(***************************************************************************)
Procs == {1, 2}

\* The line writeheader() writes: the field names.
Header ==
    [date_utc |-> "date_utc", tag |-> "tag", recipient |-> "recipient",
     status |-> "status", smtp_message |-> "smtp_message"]

\* csv.DictReader: the first line names the fields, the others are rows.
DataLines(lines) == IF lines = <<>> THEN <<>> ELSE Tail(lines)

\* What the invocations are given: the rows of one tag, of the same tag from
\* the other invocation's day, and of another tag.
OverlapRows ==
    {<<Row("d1", "t1", "foo", "delivered")>>,
     <<Row("d1", "t1", "foo", "delivered"), Row("d1", "t1", "bar", "delivered")>>,
     <<Row("d1", "t2", "foo", "delivered")>>}

\* upsert_csv up to the end of the read: os.path.exists and existing_tags.
upsert_csv_read(p, rows) ==
    /\ lastUpsert[p].pc = "idle"
    /\ lastUpsert' = [lastUpsert EXCEPT ![p] =
                        [pc |-> "read", rows |-> rows, file_exists |-> fileExists,
                         existing_tags |-> IF fileExists
                                           THEN TagsOf(DataLines(ledger)) ELSE {}]]
    /\ UNCHANGED <<ledger, fileExists>>
    /\ UNCHANGED mergeVars
    /\ UNCHANGED crmVars
    /\ UNCHANGED storeVars

\* upsert_csv from new_rows on: nothing to append, or the file is opened in
\* append mode, the header written if the file did not exist at the read,
\* and the new rows written.
upsert_csv_append(p) ==
    LET my == lastUpsert[p]
        new_rows == NewRows(TagOrder(my.rows, <<>>), my.rows, my.existing_tags)
    IN  /\ my.pc = "read"
        /\ ledger' = IF new_rows = <<>> THEN ledger
                     ELSE ledger \o (IF my.file_exists THEN <<>> ELSE <<Header>>)
                                 \o new_rows
        /\ fileExists' = (fileExists \/ new_rows # <<>>)
        /\ lastUpsert' = [lastUpsert EXCEPT ![p].pc = "returned"]
        /\ UNCHANGED mergeVars
        /\ UNCHANGED crmVars
        /\ UNCHANGED storeVars

InitOverlap ==
    /\ records = [k \in Keys |-> NoRecord]
    /\ kindsSeen = [k \in Keys |-> {}]
    /\ nEvents = 0
    /\ fileExists \in BOOLEAN
    /\ ledger \in IF fileExists
                  THEN {<<Header>>, <<Header, Row("d1", "t2", "foo", "delivered")>>}
                  ELSE {<<>>}
    /\ lastUpsert = [p \in Procs |-> [pc |-> "idle"]]
    /\ contacts = [e \in Emails |-> NoContact]
    /\ inbox = <<>>
    /\ lastOp = [op |-> "none"]
    /\ crm = <<>>
    /\ poller = Idle

NextOverlap ==
    \/ \E p \in Procs, rows \in OverlapRows : upsert_csv_read(p, rows)
    \/ \E p \in Procs : upsert_csv_append(p)

SpecOverlap == InitOverlap /\ [][NextOverlap]_vars

\* C14: however two invocations of upsert_csv interleave, the file has one
\* header line, at its top, and no two rows with the same
\* (date, tag, recipient).
C14_OverlapKeepsLedgerClean ==
    /\ \A i \in 2..Len(ledger) : ledger[i] # Header
    /\ \A i, j \in 2..Len(ledger) :
          (/\ ledger[i].date_utc = ledger[j].date_utc
           /\ ledger[i].tag = ledger[j].tag
           /\ ledger[i].recipient = ledger[j].recipient) => i = j

(***************************************************************************)
(* Overlapping invocations of _ensure_contact for one customer email, the   *)
(* find-or-create of bookings_poll.py; mail_bookings_trigger.py starts a    *)
(* try with the same search followed by the same create request.            *)
(***************************************************************************)
\* The invocation is called with the appointment.
ensure_contact_call(p) ==
    /\ poller[p].pc = "idle"
    /\ poller' = [poller EXCEPT ![p].pc = "search"]
    /\ UNCHANGED <<crm, inbox, contacts, lastOp>>
    /\ UNCHANGED mergeVars
    /\ UNCHANGED ledgerVars

\* c = search_contact_by_email(email); if c: return c
ensure_contact_search(p) ==
    /\ poller[p].pc = "search"
    /\ poller' = IF search_contact_by_email(crm) # 0
                 THEN [poller EXCEPT ![p].pc = "returned", ![p].result = "contact"]
                 ELSE [poller EXCEPT ![p].pc = "post"]
    /\ UNCHANGED <<crm, inbox, contacts, lastOp>>
    /\ UNCHANGED mergeVars
    /\ UNCHANGED ledgerVars

\* res = bigin_post("Contacts", body): the CRM creates the Contact and
\* answers "success", or answers with another status and None is returned,
\* or the request raises and the invocation ends with the exception.
ensure_contact_post(p, outcome) ==
    /\ poller[p].pc = "post"
    /\ \/ /\ outcome = "success"
          /\ crm' = Append(crm, CrmContact(FALSE, "", <<>>))
          /\ poller' = [poller EXCEPT ![p].pc = "readback", ![p].posts = @ + 1]
       \/ /\ outcome = "error"
          /\ crm' = crm
          /\ poller' = [poller EXCEPT ![p].pc = "returned", ![p].posts = @ + 1]
       \/ /\ outcome = "raise"
          /\ crm' = crm
          /\ poller' = [poller EXCEPT ![p].pc = "raised", ![p].posts = @ + 1]
    /\ UNCHANGED <<inbox, contacts, lastOp>>
    /\ UNCHANGED mergeVars
    /\ UNCHANGED ledgerVars

\* return search_contact_by_email(email), the read back after a success.
ensure_contact_readback(p) ==
    /\ poller[p].pc = "readback"
    /\ poller' = [poller EXCEPT ![p].pc = "returned",
                     ![p].result = IF search_contact_by_email(crm) # 0
                                   THEN "contact" ELSE "None"]
    /\ UNCHANGED <<crm, inbox, contacts, lastOp>>
    /\ UNCHANGED mergeVars
    /\ UNCHANGED ledgerVars

InitEnsure ==
    /\ records = [k \in Keys |-> NoRecord]
    /\ kindsSeen = [k \in Keys |-> {}]
    /\ nEvents = 0
    /\ ledger = <<>>
    /\ fileExists = FALSE
    /\ lastUpsert = [pc |-> "idle", rows |-> <<>>, before |-> <<>>]
    /\ contacts = [e \in Emails |-> NoContact]
    /\ inbox = <<>>
    /\ lastOp = [op |-> "none"]
    /\ crm \in {<<>>, <<CrmContact(TRUE, "", <<>>)>>}
    /\ poller = [p \in Procs |-> [pc |-> "idle", result |-> "None", posts |-> 0]]

NextEnsure ==
    \/ \E p \in Procs : ensure_contact_call(p)
    \/ \E p \in Procs : ensure_contact_search(p)
    \/ \E p \in Procs, outcome \in {"success", "error", "raise"} :
          ensure_contact_post(p, outcome)
    \/ \E p \in Procs : ensure_contact_readback(p)
    \/ Index

SpecEnsure == InitEnsure /\ [][NextEnsure]_vars

\* C15: two overlapping invocations of _ensure_contact for an email that has
\* no Contact do not create two Contacts: together they post at most one
\* successful create and the CRM holds at most one Contact of the email.
C15_OverlapCreatesOneContact ==
    Len(crm) <= 1

(***************************************************************************)
(* Task processes sharing the contacts CSV. Each process has its own        *)
(* module-level _store, whose DataFrame is read from the file once and      *)
(* written back whole by every save.                                        *)
(***************************************************************************)
\* ContactStore.__init__: self._df = None.
NotLoaded == [loaded |-> FALSE, df |-> [e \in Emails |-> NoContact]]

\* _ensure_loaded: the file is read only while self._df is None.
_ensure_loaded(store, disk) ==
    IF store.loaded THEN store ELSE [loaded |-> TRUE, df |-> disk]

\* _store.find_contact_by_email, a read through _ensure_loaded.
store_find_contact(p) ==
    /\ ~lastOp[p].loaded
    /\ lastOp' = [lastOp EXCEPT ![p] = _ensure_loaded(@, contacts)]
    /\ UNCHANGED <<contacts, inbox>>
    /\ UNCHANGED mergeVars
    /\ UNCHANGED ledgerVars
    /\ UNCHANGED crmVars

\* _store.update_contact_by_email: the row of the in-memory frame is
\* updated and _save writes the whole frame over the file.
update_contact_by_email(p, email, fields) ==
    LET store == _ensure_loaded(lastOp[p], contacts)
        df == update_contact(store.df, email, fields)
    IN  /\ store.df[email] # NoContact
        /\ lastOp' = [lastOp EXCEPT ![p] = [loaded |-> TRUE, df |-> df]]
        /\ contacts' = df
        /\ UNCHANGED inbox
        /\ UNCHANGED mergeVars
        /\ UNCHANGED ledgerVars
        /\ UNCHANGED crmVars

\* The task process ends and its _store with it.
ProcessExit(p) ==
    /\ lastOp[p].loaded
    /\ lastOp' = [lastOp EXCEPT ![p] = NotLoaded]
    /\ UNCHANGED <<contacts, inbox>>
    /\ UNCHANGED mergeVars
    /\ UNCHANGED ledgerVars
    /\ UNCHANGED crmVars

\* What the unsubscribe task writes: the flag and the stage.
StoreUpdates == {[unsub |-> "True"], [stage |-> "dropped"]}

InitShared ==
    /\ records = [k \in Keys |-> NoRecord]
    /\ kindsSeen = [k \in Keys |-> {}]
    /\ nEvents = 0
    /\ ledger = <<>>
    /\ fileExists = FALSE
    /\ lastUpsert = [pc |-> "idle", rows |-> <<>>, before |-> <<>>]
    /\ contacts = [e \in Emails |->
                     IF e \in {"a", "b"} THEN Contact("new", "false", "", "")
                     ELSE NoContact]
    /\ inbox = <<>>
    /\ lastOp = [p \in Procs |-> NotLoaded]
    /\ crm = <<>>
    /\ poller = Idle

NextShared ==
    \/ \E p \in Procs : store_find_contact(p)
    \/ \E p \in Procs, email \in {"a", "b"}, fields \in StoreUpdates :
          update_contact_by_email(p, email, fields)
    \/ \E p \in Procs : ProcessExit(p)

SpecShared == InitShared /\ [][NextShared]_vars

\* C16: an update saved to the contacts file is not undone by another
\* process saving from the copy it loaded earlier: once unsub is "True" in
\* the file, no save of a process leaves it other than "True" (no process
\* writes another value to unsub).
C16_SavedUpdateIsKept ==
    [][\A e \in Emails :
          (contacts[e] # NoContact /\ contacts[e].unsub = "True")
              => contacts'[e].unsub = "True"]_vars

(***************************************************************************)
(* The batch statistics CSV: collect_mailgun_day computes the statistics of *)
(* each tag of the day and appends them. The file is the sequence of its    *)
(* rows and the flag of its existence; the header follows the flag.         *)
(***************************************************************************)
StatsRow(day, tag, delivered) ==
    [date_utc |-> day, tag |-> tag, delivered |-> delivered]

StatsTags == {"t1", "t2"}
Delivered == {0, 1}

\* _stats_existing_tags: the tag labels in the file.
_stats_existing_tags(stats) == {stats[i].tag : i \in 1..Len(stats)}

\* _stats_existing_keys: the (date_utc, tag) tuples in the file.
_stats_existing_keys(stats) ==
    {<<stats[i].date_utc, stats[i].tag>> : i \in 1..Len(stats)}

\* append_stats_row of mail_utils.py: skip on a recorded (date_utc, tag).
stats_rows_bykey(stats, row) ==
    IF <<row.date_utc, row.tag>> \in _stats_existing_keys(stats)
    THEN stats ELSE Append(stats, row)

\* append_batch_stats_row of mailgun_util.py: skip on a recorded tag.
stats_rows_bytag(stats, row) ==
    IF row.tag \in _stats_existing_tags(stats)
    THEN stats ELSE Append(stats, row)

\* collect_mailgun_day, loop body, first call: calc_batch_stats queries the
\* event source for the day and the tag and returns the row.
calc_batch_stats(day, tag, delivered) ==
    /\ lastUpsert.pc = "idle"
    /\ lastUpsert' = [pc |-> "computed", fn |-> "append_batch_stats_row",
                      row |-> StatsRow(day, tag, delivered),
                      queried |-> {<<day, tag>>}, before |-> ledger]
    /\ UNCHANGED <<ledger, fileExists>>
    /\ UNCHANGED mergeVars
    /\ UNCHANGED storeVars
    /\ UNCHANGED crmVars

\* collect_mailgun_day, loop body, second call: append_batch_stats_row.
append_batch_stats_row ==
    /\ lastUpsert.pc = "computed"
    /\ ledger' = stats_rows_bytag(ledger, lastUpsert.row)
    /\ fileExists' = (fileExists \/ ledger' # ledger)
    /\ lastUpsert' = [lastUpsert EXCEPT !.pc = "appended"]
    /\ UNCHANGED mergeVars
    /\ UNCHANGED storeVars
    /\ UNCHANGED crmVars

\* append_stats_row of mail_utils.py, called with a computed row.
append_stats_row(row) ==
    /\ lastUpsert.pc = "idle"
    /\ ledger' = stats_rows_bykey(ledger, row)
    /\ fileExists' = (fileExists \/ ledger' # ledger)
    /\ lastUpsert' = [pc |-> "appended", fn |-> "append_stats_row", row |-> row,
                      queried |-> {}, before |-> ledger]
    /\ UNCHANGED mergeVars
    /\ UNCHANGED storeVars
    /\ UNCHANGED crmVars

\* The append returns and the caller goes on.
StatsReturn ==
    /\ lastUpsert.pc = "appended"
    /\ lastUpsert' = [pc |-> "idle"]
    /\ UNCHANGED <<ledger, fileExists>>
    /\ UNCHANGED mergeVars
    /\ UNCHANGED storeVars
    /\ UNCHANGED crmVars

InitStats ==
    /\ records = [k \in Keys |-> NoRecord]
    /\ kindsSeen = [k \in Keys |-> {}]
    /\ nEvents = 0
    /\ ledger = <<>>
    /\ fileExists = FALSE
    /\ lastUpsert = [pc |-> "idle"]
    /\ contacts = [e \in Emails |-> NoContact]
    /\ inbox = <<>>
    /\ lastOp = [op |-> "none"]
    /\ crm = <<>>
    /\ poller = Idle

NextStats ==
    \/ \E day \in Days, tag \in StatsTags, delivered \in Delivered :
          calc_batch_stats(day, tag, delivered)
    \/ append_batch_stats_row
    \/ \E day \in Days, tag \in StatsTags, delivered \in Delivered :
          append_stats_row(StatsRow(day, tag, delivered))
    \/ StatsReturn

SpecStats == InitStats /\ [][NextStats]_vars

\* C17: an append of a statistics row leaves the file as it was exactly
\* when a row of the same (date_utc, tag) is in it, and otherwise adds the
\* row, and only the row, at the end.
C17_StatsAppendByDateAndTag ==
    lastUpsert.pc = "appended" =>
        ledger = IF <<lastUpsert.row.date_utc, lastUpsert.row.tag>>
                      \in _stats_existing_keys(lastUpsert.before)
                 THEN lastUpsert.before
                 ELSE Append(lastUpsert.before, lastUpsert.row)

\* C18: no query of the event source is issued for a (date_utc, tag) that
\* the statistics file already records; the skip is decided first.
C18_NoQueryForRecordedPair ==
    lastUpsert.pc \in {"computed", "appended"} =>
        lastUpsert.queried \cap _stats_existing_keys(lastUpsert.before) = {}

(***************************************************************************)
(* The event loop of compute_rows_for_day with a log, per key, of what the  *)
(* processed events supplied: the timestamps present and the last non-empty *)
(* code, message and message-id.                                            *)
(***************************************************************************)
\* What an event carries besides recipient, tags and timestamp.
Payloads ==
    {[code |-> "", message |-> "", message_id |-> ""],
     [code |-> "550", message |-> "No such\nuser", message_id |-> ""],
     [code |-> "250", message |-> "OK", message_id |-> "<m1>"],
     [code |-> "", message |-> "", message_id |-> "<m2>"]}

ProcessedEvents ==
    {[recipient |-> "foo", tags |-> t, timestamp |-> ts, code |-> pl.code,
      message |-> pl.message, message_id |-> pl.message_id] :
        t \in EventTags, ts \in Timestamps, pl \in Payloads}

\* The fetch-plan entries the events come from.
ProcessedKinds == {"delivered", "clicked", "failed_permanent"}

NoSupply == [seen |-> {}, code |-> "", message |-> "", message_id |-> ""]

ProcessEvent(status, event) ==
    LET key == <<event.recipient, IF event.tags # <<>> THEN event.tags[1] ELSE "">>
    IN  /\ MergeEvent(status, event)
        /\ lastOp' = [lastOp EXCEPT ![key] =
               [seen |-> @.seen \cup ({event.timestamp} \ {NoTs}),
                code |-> IF event.code # "" THEN event.code ELSE @.code,
                message |-> IF event.message # "" THEN event.message ELSE @.message,
                message_id |-> IF event.message_id # ""
                               THEN event.message_id ELSE @.message_id]]
        /\ UNCHANGED <<contacts, inbox>>
        /\ UNCHANGED ledgerVars
        /\ UNCHANGED crmVars

InitTouch ==
    /\ records = [k \in Keys |-> NoRecord]
    /\ kindsSeen = [k \in Keys |-> {}]
    /\ nEvents = 0
    /\ ledger = <<>>
    /\ fileExists = FALSE
    /\ lastUpsert = [pc |-> "idle", rows |-> <<>>, before |-> <<>>]
    /\ contacts = [e \in Emails |-> NoContact]
    /\ inbox = <<>>
    /\ lastOp = [k \in Keys |-> NoSupply]
    /\ crm = <<>>
    /\ poller = Idle

NextTouch ==
    \E status \in ProcessedKinds, event \in ProcessedEvents : ProcessEvent(status, event)

SpecTouch == InitTouch /\ [][NextTouch]_vars

Earliest(S) == IF S = {} THEN NoTs ELSE CHOOSE t \in S : \A u \in S : t <= u
Latest(S) == IF S = {} THEN NoTs ELSE CHOOSE t \in S : \A u \in S : t >= u

\* C19: after the events of a key are merged, first_seen is the least and
\* last_seen the greatest of the timestamps the events carried, whichever
\* event gave the status; an event without a timestamp changes neither and
\* its kind still counts for the status.
C19_SeenAreMinAndMax ==
    \A k \in Keys :
        kindsSeen[k] # {} =>
            /\ records[k].first_seen = Earliest(lastOp[k].seen)
            /\ records[k].last_seen = Latest(lastOp[k].seen)
            /\ records[k].status = Highest(kindsSeen[k])

\* Two events of one key, delivered and clicked, at 10 and 40 in either
\* order: the status is clicked and the row reads "10" and "40".
C19_Witness ==
    \E k \in Keys :
        /\ kindsSeen[k] = {"clicked", "delivered"}
        /\ lastOp[k].seen = {10, 40}
        /\ nEvents = 2
        /\ records[k].status = "clicked"
        /\ final_row(records[k], "d1").first_seen = "10"
        /\ final_row(records[k], "d1").last_seen = "40"

\* C20: smtp_code, smtp_message and message_id of a record are each what
\* the last processed event with a non-empty value supplied (the message on
\* one line), and empty when none supplied one, whatever the kinds of the
\* events.
C20_DeliveryFieldsFollowLastSupply ==
    \A k \in Keys :
        kindsSeen[k] # {} =>
            /\ records[k].smtp_code = lastOp[k].code
            /\ records[k].smtp_message = JoinLines(lastOp[k].message)
            /\ records[k].message_id = lastOp[k].message_id

\* A failed_permanent event supplied code 550 and a later delivered event,
\* of lower precedence, supplied 250 and a message-id: the record keeps the
\* status of the first and the fields of the second.
C20_Witness ==
    \E k \in Keys :
        /\ records[k] # NoRecord
        /\ records[k].status = "failed_permanent"
        /\ kindsSeen[k] = {"failed_permanent", "delivered"}
        /\ records[k].smtp_code = "250"
        /\ records[k].smtp_message = "OK"
        /\ records[k].message_id = "<m1>"

(***************************************************************************)
(* The two upsert_csv of the repository on one ledger, with writes that can *)
(* fail part way: the write stops after `written` rows and raises.          *)
(***************************************************************************)
\* upsert_csv of mailgun_util.py: the file is opened for append and
\* writerows stops after `written` of the new rows.
upsert_csv_append_fails(written) ==
    LET after == upsert_rows(ledger, fileExists, lastUpsert.rows)
    IN  /\ lastUpsert.pc = "called"
        /\ written \in 0..(Len(after) - Len(ledger) - 1)
        /\ ledger' = SubSeq(after, 1, Len(ledger) + written)
        /\ fileExists' = TRUE
        /\ lastUpsert' = [lastUpsert EXCEPT !.pc = "returned"]
        /\ UNCHANGED mergeVars
        /\ UNCHANGED crmVars
        /\ UNCHANGED storeVars

\* upsert_csv of mail_utils.py: the file is read, opened with mode "w",
\* which empties it, and the merged rows are written; `written` of them
\* reach the file, all of them when the write does not fail.
mail_utils_upsert_csv(written) ==
    LET merged == mail_utils_upsert_rows(IF fileExists THEN ledger ELSE <<>>,
                                         lastUpsert.rows)
    IN  /\ lastUpsert.pc = "called"
        /\ written \in 0..Len(merged)
        /\ ledger' = SubSeq(merged, 1, written)
        /\ fileExists' = TRUE
        /\ lastUpsert' = [lastUpsert EXCEPT !.pc = "returned"]
        /\ UNCHANGED mergeVars
        /\ UNCHANGED crmVars
        /\ UNCHANGED storeVars

NextRewrite ==
    \/ \E rows \in RowSeqs(MaxRows) : CallUpsert(rows)
    \/ upsert_csv
    \/ \E written \in 0..MaxRows : upsert_csv_append_fails(written)
    \/ \E written \in 0..(2 * MaxRows) : mail_utils_upsert_csv(written)
    \/ FinishUpsert

SpecRewrite == InitLedger /\ [][NextRewrite]_vars

\* C26: after an upsert, finished or stopped by an I/O error during the
\* write, the rows the ledger held before it are still its first rows,
\* unchanged and in their order.
C26_PersistedRowsArePrefix ==
    lastUpsert.pc = "returned" => IsPrefix(lastUpsert.before, ledger)

(***************************************************************************)
(* ContactStore as the table it is: the rows of the DataFrame in order,     *)
(* each with its email, auto_number, stage and notes. One process, whose    *)
(* frame and file agree after every save.                                   *)
(***************************************************************************)
MaxContacts == 3

\* _normalize_email: strip and lower.
_normalize_email(value) ==
    CASE value = " A " -> "a"
      [] value = "B" -> "b"
      [] OTHER -> value

\* _row_index_by_email: the index of the first row whose email, stripped
\* and lowered, is the normalized email; 0 for None.
_row_index_by_email(df, email) ==
    LET hits == {i \in 1..Len(df) :
                    _normalize_email(df[i].email) = _normalize_email(email)}
    IN  IF email = "" \/ hits = {} THEN 0
        ELSE CHOOSE i \in hits : \A j \in hits : i <= j

\* _next_auto_number: one more than the greatest auto_number of the frame,
\* 1 for an empty frame.
_next_auto_number(df) ==
    IF df = <<>> THEN 1
    ELSE (CHOOSE n \in {df[i].auto_number : i \in 1..Len(df)} :
              \A i \in 1..Len(df) : df[i].auto_number <= n) + 1

\* add_contact(data): ValueError without an email or for an email that has
\* a row; else a row with the normalized email and the next auto_number is
\* appended and saved.
add_contact(email) ==
    LET email_value == _normalize_email(email)
        number == _next_auto_number(contacts)
        fails == email_value = "" \/ _row_index_by_email(contacts, email_value) # 0
    IN  /\ Len(contacts) < MaxContacts
        /\ contacts' = IF fails THEN contacts
                       ELSE Append(contacts, [email |-> email_value, auto_number |-> number,
                                              stage |-> "", notes |-> <<>>])
        /\ lastOp' = [op |-> "add", email |-> email, raised |-> fails,
                      assigned |-> IF fails THEN lastOp.assigned
                                   ELSE lastOp.assigned \cup {number}]
        /\ UNCHANGED inbox
        /\ UNCHANGED mergeVars
        /\ UNCHANGED ledgerVars
        /\ UNCHANGED crmVars

\* update_contact_by_email(email, fields): ValueError when no row has the
\* email; else _update_row writes every field that is a column into the
\* row, and the frame is saved.
store_update_contact(email, fields) ==
    LET idx == _row_index_by_email(contacts, email)
    IN  /\ contacts' = IF idx = 0 THEN contacts
                       ELSE [contacts EXCEPT ![idx] =
                               [k \in DOMAIN @ |->
                                   IF k \in DOMAIN fields /\ k \in COLUMNS
                                   THEN fields[k] ELSE @[k]]]
        /\ lastOp' = [op |-> "update", email |-> email, raised |-> idx = 0,
                      assigned |-> lastOp.assigned]
        /\ UNCHANGED inbox
        /\ UNCHANGED mergeVars
        /\ UNCHANGED ledgerVars
        /\ UNCHANGED crmVars

\* append_contact_note(email, note)
store_append_note(email) ==
    LET idx == _row_index_by_email(contacts, email)
    IN  /\ idx # 0 => Len(contacts[idx].notes) < MaxNotes
        /\ contacts' = IF idx = 0 THEN contacts
                       ELSE [contacts EXCEPT ![idx].notes = Append(@, "note")]
        /\ lastOp' = [op |-> "note", email |-> email, raised |-> idx = 0,
                      assigned |-> lastOp.assigned]
        /\ UNCHANGED inbox
        /\ UNCHANGED mergeVars
        /\ UNCHANGED ledgerVars
        /\ UNCHANGED crmVars

\* The emails the callers pass, and the fields update_contact is given: a
\* stage, an email, an auto_number.
StoreEmails == {"a", " A ", "b", "B", ""}
UpdateFields == {[stage |-> "intro"], [email |-> "b"], [auto_number |-> 1]}

InitStore ==
    /\ records = [k \in Keys |-> NoRecord]
    /\ kindsSeen = [k \in Keys |-> {}]
    /\ nEvents = 0
    /\ ledger = <<>>
    /\ fileExists = FALSE
    /\ lastUpsert = [pc |-> "idle", rows |-> <<>>, before |-> <<>>]
    /\ contacts = <<>>
    /\ inbox = <<>>
    /\ lastOp = [op |-> "none", assigned |-> {}]
    /\ crm = <<>>
    /\ poller = Idle

NextStore ==
    \/ \E email \in StoreEmails : add_contact(email)
    \/ \E email \in StoreEmails, fields \in UpdateFields :
          store_update_contact(email, fields)
    \/ \E email \in StoreEmails : store_append_note(email)

SpecStore == InitStore /\ [][NextStore]_vars

\* C28: whatever add_contact, update_contact and append_contact_note have
\* done, no two rows of the store have the same normalized email.
C28_EmailIsUniqueKey ==
    \A i, j \in 1..Len(contacts) :
        _normalize_email(contacts[i].email) = _normalize_email(contacts[j].email)
            => i = j

\* C29: the auto_number of a row never changes, and the auto_number given
\* to a new row is greater than every auto_number given before.
C29_AutoNumberIsStable ==
    [][/\ \A i \in 1..Len(contacts) :
             contacts'[i].auto_number = contacts[i].auto_number
       /\ Len(contacts') > Len(contacts) =>
             \A n \in lastOp.assigned : contacts'[Len(contacts')].auto_number > n]_vars

(***************************************************************************)
(* compute_batch_stats: the counts of the five event lists and the rate.    *)
(***************************************************************************)
MaxCount == 2

\* The rate cut after the fourth decimal instead of rounded.
delivery_rate_cut(delivered_count, denominator) ==
    IF denominator > 0 THEN (delivered_count * 10000) \div denominator ELSE 0

\* f"{delivery_rate:.4f}" of delivered_count / denominator, or of 0.0 for a
\* zero denominator, as the number of ten-thousandths it prints: the
\* nearest one, the even one when the quotient lies half way.
delivery_rate(delivered_count, denominator) ==
    IF denominator > 0
    THEN LET q == (delivered_count * 10000) \div denominator
             rem == (delivered_count * 10000) % denominator
         IN  IF 2 * rem > denominator \/ (2 * rem = denominator /\ q % 2 = 1)
             THEN q + 1 ELSE q
    ELSE 0

\* The dict compute_batch_stats returns, from the lengths of the five lists.
batch_stats_row(failed_perm, failed_temp, dropped, rejected, delivered) ==
    LET not_delivered_total == failed_perm + failed_temp + dropped + rejected
        denominator == delivered + not_delivered_total
    IN  [failed_permanent |-> failed_perm, failed_temporary |-> failed_temp,
         dropped |-> dropped, rejected |-> rejected,
         delivered |-> delivered,
         not_delivered_total |-> not_delivered_total,
         delivery_rate |-> delivery_rate(delivered, denominator)]

\* compute_batch_stats on the lists the five queries returned, given by
\* their lengths after the tag filter.
compute_batch_stats(failed_perm, failed_temp, dropped, rejected, delivered) ==
    /\ lastUpsert.pc = "idle"
    /\ lastUpsert' =
          [pc |-> "computed",
           row |-> batch_stats_row(failed_perm, failed_temp, dropped, rejected, delivered)]
    /\ UNCHANGED <<ledger, fileExists>>
    /\ UNCHANGED mergeVars
    /\ UNCHANGED storeVars
    /\ UNCHANGED crmVars

\* The row is returned to the caller.
RateReturn ==
    /\ lastUpsert.pc = "computed"
    /\ lastUpsert' = [pc |-> "idle"]
    /\ UNCHANGED <<ledger, fileExists>>
    /\ UNCHANGED mergeVars
    /\ UNCHANGED storeVars
    /\ UNCHANGED crmVars

NextRate ==
    \/ \E failed_perm, failed_temp, dropped, rejected, delivered \in 0..MaxCount :
          compute_batch_stats(failed_perm, failed_temp, dropped, rejected, delivered)
    \/ RateReturn

SpecRate == InitStats /\ [][NextRate]_vars

\* C30: the row of compute_batch_stats has not_delivered_total =
\* failed_permanent + failed_temporary + dropped + rejected, and its
\* delivery_rate is delivered / (delivered + not_delivered_total) to four
\* decimals (within half a ten-thousandth), 0.0000 for a zero denominator.
C30_RateAndTotal ==
    lastUpsert.pc = "computed" =>
        LET row == lastUpsert.row
            denominator == row.delivered + row.not_delivered_total
            off == row.delivery_rate * denominator - 10000 * row.delivered
        IN  /\ row.not_delivered_total =
                  row.failed_permanent + row.failed_temporary + row.dropped + row.rejected
            /\ denominator = 0 => row.delivery_rate = 0
            /\ denominator > 0 => (2 * off <= denominator /\ -2 * off <= denominator)

\* Two delivered and one permanent failure: the total is 1 and the rate
\* prints as 0.6667.
C30_Witness ==
    /\ lastUpsert.pc = "computed"
    /\ lastUpsert.row.delivered = 2
    /\ lastUpsert.row.failed_permanent = 1
    /\ lastUpsert.row.not_delivered_total = 1
    /\ lastUpsert.row.delivery_rate = 6667

(***************************************************************************)
(* The event source: MailgunEventsClient.fetch_events_single_page against   *)
(* the events the provider holds for the day, and the two readers of it,    *)
(* compute_batch_stats and compute_rows_for_day. crm holds the provider's   *)
(* events of the day window in the order the provider lists them.           *)
(***************************************************************************)
PageCap == 2      \* the provider's page size (100), scaled down
MaxStored == PageCap + 1    \* events the provider holds for the day

SourceEvent(event, severity, recipient, tags) ==
    [event |-> event, severity |-> severity, recipient |-> recipient, tags |-> tags,
     timestamp |-> 10, code |-> "", message |-> "", message_id |-> ""]

\* Failed events carry a severity, the other kinds none.
SourceEvents ==
    {SourceEvent("failed", sev, r, t) :
        sev \in {"permanent", "temporary"}, r \in Recipients, t \in EventTags}
    \cup {SourceEvent("delivered", "", r, t) : r \in Recipients, t \in EventTags}

\* One GET of /events with event=..., limit=min(limit, 100) and the extra
\* severity filter ("" for none): the first page of the matching events.
\* The paging links of the response are not read.
fetch_events_single_page(store, event, extra) ==
    LET items == SelectSeq(store, LAMBDA e :
                     e.event = event /\ (extra = "" \/ e.severity = extra))
    IN  SubSeq(items, 1, IF Len(items) < PageCap THEN Len(items) ELSE PageCap)

\* compute_batch_stats._filter_by_tag: all events without a tag label, else
\* the events whose tag list holds the label.
_filter_by_tag(events, tag_label) ==
    IF tag_label = "" THEN events
    ELSE SelectSeq(events, LAMBDA e :
             \E i \in 1..Len(e.tags) : e.tags[i] = tag_label)

\* compute_batch_stats with its five queries against the provider.
compute_batch_stats_day(tag_label) ==
    LET failed_all == _filter_by_tag(fetch_events_single_page(crm, "failed", ""), tag_label)
        failed_perm == _filter_by_tag(
                           fetch_events_single_page(crm, "failed", "permanent"), tag_label)
        failed_temp == SelectSeq(failed_all, LAMBDA e : e.severity = "temporary")
        dropped == _filter_by_tag(fetch_events_single_page(crm, "dropped", ""), tag_label)
        rejected == _filter_by_tag(fetch_events_single_page(crm, "rejected", ""), tag_label)
        delivered == _filter_by_tag(fetch_events_single_page(crm, "delivered", ""), tag_label)
    IN  /\ lastUpsert.pc = "idle"
        /\ lastUpsert' =
              [pc |-> "computed", tag |-> tag_label,
               row |-> batch_stats_row(Len(failed_perm), Len(failed_temp), Len(dropped),
                                       Len(rejected), Len(delivered))]
        /\ UNCHANGED <<ledger, fileExists>>
        /\ UNCHANGED mergeVars
        /\ UNCHANGED storeVars
        /\ UNCHANGED crmVars

\* compute_rows_for_day.fetch_plan: status, event name, severity filter.
fetch_plan ==
    << <<"complained", "complained", "">>,
       <<"failed_permanent", "failed", "permanent">>,
       <<"dropped", "dropped", "">>,
       <<"rejected", "rejected", "">>,
       <<"failed_temporary", "failed", "temporary">>,
       <<"clicked", "clicked", "">>,
       <<"opened", "opened", "">>,
       <<"delivered", "delivered", "">> >>

\* Every event is taken, with or without a recipient.
no_recipient_never(event) == FALSE

\* `if not recipient: continue`
no_recipient(event) == event.recipient = ""

\* The inner loop of compute_rows_for_day over one page. acc.recs is the
\* records dict, acc.order its keys in insertion order.
RECURSIVE MergePage(_, _, _)
MergePage(acc, events, status) ==
    IF events = <<>> THEN acc
    ELSE LET event == Head(events)
             tag_value == IF event.tags # <<>> THEN event.tags[1] ELSE ""
             key == <<event.recipient, tag_value>>
         IN  IF no_recipient(event) THEN MergePage(acc, Tail(events), status)
             ELSE MergePage(
                      [recs |-> [acc.recs EXCEPT
                                    ![key] = _touch(record_for(acc.recs, key), event, status)],
                       order |-> IF acc.recs[key] = NoRecord
                                 THEN Append(acc.order, key) ELSE acc.order],
                      Tail(events), status)

\* The outer loop over fetch_plan from entry i on.
RECURSIVE PlanLoop(_, _, _)
PlanLoop(acc, store, i) ==
    IF i > Len(fetch_plan) THEN acc
    ELSE PlanLoop(MergePage(acc,
                            fetch_events_single_page(store, fetch_plan[i][2],
                                                     fetch_plan[i][3]),
                            fetch_plan[i][1]),
                  store, i + 1)

\* compute_rows_for_day as a whole: the fetch plan, then the closing loop
\* over records.values().
rows_for_day(day) ==
    LET acc == PlanLoop([recs |-> [k \in Keys |-> NoRecord], order |-> <<>>], crm, 1)
    IN  /\ lastUpsert.pc = "idle"
        /\ records' = acc.recs
        /\ lastUpsert' =
              [pc |-> "rows",
               rows |-> [i \in 1..Len(acc.order) |-> final_row(acc.recs[acc.order[i]], day)]]
        /\ UNCHANGED <<kindsSeen, nEvents, ledger, fileExists>>
        /\ UNCHANGED storeVars
        /\ UNCHANGED crmVars

\* The provider records one more event of the day.
SourceRecords(e) ==
    /\ lastUpsert.pc = "idle"
    /\ Len(crm) < MaxStored
    /\ crm' = Append(crm, e)
    /\ UNCHANGED poller
    /\ UNCHANGED mergeVars
    /\ UNCHANGED ledgerVars
    /\ UNCHANGED storeVars

\* The caller takes the result; the records dict is a local of the run.
SourceReturn ==
    /\ lastUpsert.pc \in {"computed", "rows"}
    /\ lastUpsert' = [pc |-> "idle"]
    /\ records' = [k \in Keys |-> NoRecord]
    /\ UNCHANGED <<kindsSeen, nEvents, ledger, fileExists>>
    /\ UNCHANGED storeVars
    /\ UNCHANGED crmVars

NextSource ==
    \/ \E e \in SourceEvents : SourceRecords(e)
    \/ \E tag_label \in {"", "t1"} : compute_batch_stats_day(tag_label)
    \/ \E day \in Days : rows_for_day(day)
    \/ SourceReturn

SpecSource == InitStats /\ [][NextSource]_vars

\* C31: in the row of compute_batch_stats, failed_temporary is the number
\* of tag-filtered failed-all events minus failed_permanent.
C31_TemporaryIsAllMinusPermanent ==
    lastUpsert.pc = "computed" =>
        lastUpsert.row.failed_temporary =
            Len(_filter_by_tag(fetch_events_single_page(crm, "failed", ""), lastUpsert.tag))
            - lastUpsert.row.failed_permanent

\* The events of the store that a reader asking for `event` with the
\* severity filter `extra` is to see.
Matching(store, event, extra) ==
    SelectSeq(store, LAMBDA e : e.event = event /\ (extra = "" \/ e.severity = extra))

\* C32: every event of the day contributes: each delivered event counts in
\* the stats row, and each event with a recipient has its record among the
\* rows of compute_rows_for_day, however many events the provider holds.
C32_EveryEventContributes ==
    /\ lastUpsert.pc = "computed" =>
          lastUpsert.row.delivered =
              Len(_filter_by_tag(Matching(crm, "delivered", ""), lastUpsert.tag))
    /\ lastUpsert.pc = "rows" =>
          \A i \in 1..Len(crm) :
              crm[i].recipient # "" =>
                  records[<<crm[i].recipient,
                            IF crm[i].tags # <<>> THEN crm[i].tags[1] ELSE "">>] # NoRecord

\* C33: every row compute_rows_for_day returns has a recipient, comes from
\* an event of that recipient and first tag, and has a status other than
\* "unknown"; no record exists for the empty recipient.
C33_NoRowWithoutEvent ==
    lastUpsert.pc = "rows" =>
        /\ \A k \in Keys : k[1] = "" => records[k] = NoRecord
        /\ \A i \in 1..Len(lastUpsert.rows) :
              LET row == lastUpsert.rows[i]
              IN  /\ row.recipient # ""
                  /\ row.status # "unknown"
                  /\ row.status \in Kinds
                  /\ \E j \in 1..Len(crm) :
                        /\ crm[j].recipient = row.recipient
                        /\ (IF crm[j].tags # <<>> THEN crm[j].tags[1] ELSE "") = row.tag

\* The provider held an event without a recipient and one with; the run
\* returned the one row of the latter.
C33_Witness ==
    /\ lastUpsert.pc = "rows"
    /\ Len(lastUpsert.rows) = 1
    /\ lastUpsert.rows[1].recipient = "foo"
    /\ \E j \in 1..Len(crm) : crm[j].recipient = ""

(***************************************************************************)
(* _imap_connect_with_retry of app/tasks/mail_bookings_trigger.py. poller   *)
(* holds the locals of the call: attempts, the loop index i, last, and as   *)
(* history the outcome of every connection attempt made.                    *)
(***************************************************************************)
MaxAttempts == 3

\* What one pass through the try block ends with: the selected connection,
\* or the exception of IMAP4_SSL(host), of login or of select.
ConnectOutcomes == {"imap", "connect error", "login error", "select error"}

\* The loop runs once more than range(attempts) does.
range_has_inclusive(i, attempts) == i <= attempts

\* `for i in range(attempts)`: i is the number of iterations done.
range_has(i, attempts) == i < attempts

_imap_connect_with_retry(attempts) ==
    /\ poller.pc = "idle"
    /\ poller' = [pc |-> "loop", attempts |-> attempts, i |-> 0, last |-> None,
                  made |-> <<>>, result |-> None]
    /\ UNCHANGED crm
    /\ UNCHANGED mergeVars
    /\ UNCHANGED ledgerVars
    /\ UNCHANGED storeVars

\* One iteration: IMAP4_SSL, login, ensure_mailbox, select. On success the
\* connection is returned at once; any exception is kept in last and the
\* loop sleeps and goes on.
imap_connect_attempt(outcome) ==
    /\ poller.pc = "loop"
    /\ range_has(poller.i, poller.attempts)
    /\ poller' = IF outcome = "imap"
                 THEN [poller EXCEPT !.pc = "returned", !.result = outcome,
                                     !.made = Append(@, outcome)]
                 ELSE [poller EXCEPT !.i = @ + 1, !.last = outcome,
                                     !.made = Append(@, outcome)]
    /\ UNCHANGED crm
    /\ UNCHANGED mergeVars
    /\ UNCHANGED ledgerVars
    /\ UNCHANGED storeVars

\* After the loop: `assert last is not None; raise last`.
imap_connect_raise ==
    /\ poller.pc = "loop"
    /\ ~range_has(poller.i, poller.attempts)
    /\ poller' = [poller EXCEPT
                    !.pc = "raised",
                    !.result = IF poller.last = None THEN "AssertionError" ELSE poller.last]
    /\ UNCHANGED crm
    /\ UNCHANGED mergeVars
    /\ UNCHANGED ledgerVars
    /\ UNCHANGED storeVars

\* The caller has the connection or the error.
imap_connect_exit ==
    /\ poller.pc \in {"returned", "raised"}
    /\ poller' = Idle
    /\ UNCHANGED crm
    /\ UNCHANGED mergeVars
    /\ UNCHANGED ledgerVars
    /\ UNCHANGED storeVars

NextConnect ==
    \/ \E attempts \in 0..MaxAttempts : _imap_connect_with_retry(attempts)
    \/ \E outcome \in ConnectOutcomes : imap_connect_attempt(outcome)
    \/ imap_connect_raise
    \/ imap_connect_exit

SpecConnect == InitStats /\ [][NextConnect]_vars

\* C35: _imap_connect_with_retry makes at most `attempts` attempts, makes
\* none after one that succeeded and returns that one's connection, and
\* with attempts >= 1 raises only after `attempts` failures, the error of
\* the last of them.
C35_RetryIsBounded ==
    poller.pc \in {"loop", "returned", "raised"} =>
        LET n == Len(poller.made)
        IN  /\ n <= poller.attempts
            /\ \A j \in 1..(n - 1) : poller.made[j] # "imap"
            /\ poller.pc = "returned" => (n >= 1 /\ poller.made[n] = "imap"
                                          /\ poller.result = "imap")
            /\ (poller.pc = "raised" /\ poller.attempts >= 1) =>
                  /\ n = poller.attempts
                  /\ poller.made[n] # "imap"
                  /\ poller.result = poller.made[n]

\* Three attempts allowed: the first two fail with different errors, the
\* third connects.
C35_Witness ==
    /\ poller.pc = "returned"
    /\ poller.attempts = 3
    /\ poller.made = <<"connect error", "login error", "imap">>

(***************************************************************************)
(* The booking poller poll_new of app/tasks/bookings_poll.py, appointment   *)
(* by appointment. In this part inbox holds the appointments of the         *)
(* Bookings provider, crm the Pipelines records of the CRM with the state   *)
(* of their search index, ledger and fileExists the state file              *)
(* .bookings_state.json, lastOp the clock (hours, UTC) and the zone of the  *)
(* Bookings organisation, poller the locals of poll_new.                    *)
(***************************************************************************)
MaxTime == 3
MaxPipelines == 4
LOOKBACK_DEFAULT_HOURS == 24

\* An appointment of the provider: its booking key fields, the customer,
\* the hour it was booked and the hour it starts (UTC).
Appointment(booking_id, service, email, booked_on, start_time) ==
    [booking_id |-> booking_id, service_name |-> service, customer_email |-> email,
     booked_on |-> booked_on, iso_start_time |-> start_time]

\* What the provider holds: a booking of the known customer, one without
\* its official id, one of a customer the CRM does not know, one without
\* customer email.
AppointmentLists ==
    {<<Appointment("b1", "call", "a", 0, 1)>>,
     <<Appointment("", "call", "a", 0, 1), Appointment("b2", "call", "c", 1, 2)>>,
     <<Appointment("b3", "call", "", 0, 1), Appointment("b1", "call", "a", 1, 3)>>}

\* f"{svc}|{iso}" of the composite key.
Composite(svc, iso) ==
    CASE svc = "call" /\ iso = 1 -> "call|01"
      [] svc = "call" /\ iso = 2 -> "call|02"
      [] svc = "call" /\ iso = 3 -> "call|03"

_booking_key(appt) ==
    IF appt.booking_id # "" THEN appt.booking_id
    ELSE Composite(appt.service_name, appt.iso_start_time)

\* _load_cursor: the saved cursor, else now minus the lookback.
_load_cursor(exists, state, now) ==
    IF exists THEN state.last ELSE now - LOOKBACK_DEFAULT_HOURS

\* fetch_appointments(start, end): _en_gmt_fmt prints the two UTC times
\* without their zone and the provider reads them as times of the
\* organisation, which is `org` hours behind UTC; it returns, in its order
\* and over all pages, the appointments booked by now that start within the
\* window it read.
fetch_appointments(held, start, end, org, now) ==
    SelectSeq(held, LAMBDA appt :
        /\ appt.booked_on <= now
        /\ start + org <= appt.iso_start_time
        /\ appt.iso_start_time <= end + org)

poll_new_start ==
    LET start == _load_cursor(fileExists, ledger, lastOp.now)
        end == lastOp.now
    IN  /\ poller.pc = "idle"
        /\ Len(crm) + Len(inbox) <= MaxPipelines
        /\ poller' = [pc |-> "loop", start |-> start, end |-> end, latest |-> start,
                      queue |-> fetch_appointments(inbox, start, end, lastOp.org, lastOp.now)]
        /\ UNCHANGED crm
        /\ UNCHANGED mergeVars
        /\ UNCHANGED ledgerVars
        /\ UNCHANGED storeVars

\* The larger of latest and the two times of the appointment.
AdvanceLatest(latest, appt) ==
    LET l1 == IF appt.booked_on > latest THEN appt.booked_on ELSE latest
    IN  IF appt.iso_start_time > l1 THEN appt.iso_start_time ELSE l1

\* The rows of the Pipelines search for Booking_Id = key: the records the
\* search index has.
SearchPipelines(recs, key) ==
    {i \in 1..Len(recs) : recs[i].Booking_Id = key /\ recs[i].searchable}

\* One pass of the loop of poll_new. _ensure_contact gives None without an
\* email, the Contact found, or creates one and reads it back (found |->
\* whether the read-back sees it). _upsert_pipeline_record updates the first
\* record the search returns for the key, else creates one. Then latest
\* advances.
poll_new_appt(found) ==
    /\ poller.pc = "loop"
    /\ poller.queue # <<>>
    /\ LET appt == Head(poller.queue)
           email == appt.customer_email
           key == _booking_key(appt)
           known == email # "" /\ contacts[email] # NoContact
           c == email # "" /\ (known \/ found)
           rows == SearchPipelines(crm, key)
       IN  /\ contacts' = IF email # "" /\ ~known
                          THEN [contacts EXCEPT ![email] = Contact("", "false", "", "")]
                          ELSE contacts
           /\ crm' = IF ~c THEN crm
                     ELSE IF rows # {}
                     THEN [crm EXCEPT ![CHOOSE i \in rows : \A j \in rows : i <= j].Stage = "Booked"]
                     ELSE Append(crm, [Booking_Id |-> key, Stage |-> "Booked",
                                       searchable |-> FALSE])
           /\ poller' = [poller EXCEPT
                           !.queue = Tail(@),
                           !.latest = IF c THEN AdvanceLatest(@, appt) ELSE @]
    /\ UNCHANGED <<inbox, lastOp>>
    /\ UNCHANGED mergeVars
    /\ UNCHANGED ledgerVars

\* After the loop: _save_cursor(latest).
poll_new_save ==
    /\ poller.pc = "loop"
    /\ poller.queue = <<>>
    /\ ledger' = [last |-> poller.latest]
    /\ fileExists' = TRUE
    /\ poller' = [poller EXCEPT !.pc = "saved"]
    /\ UNCHANGED <<lastUpsert, crm>>
    /\ UNCHANGED mergeVars
    /\ UNCHANGED storeVars

poll_new_exit ==
    /\ poller.pc = "saved"
    /\ poller' = Idle
    /\ UNCHANGED crm
    /\ UNCHANGED mergeVars
    /\ UNCHANGED ledgerVars
    /\ UNCHANGED storeVars

\* An hour passes between two polls.
Tick ==
    /\ poller.pc = "idle"
    /\ lastOp.now < MaxTime
    /\ lastOp' = [lastOp EXCEPT !.now = @ + 1]
    /\ UNCHANGED <<contacts, inbox>>
    /\ UNCHANGED mergeVars
    /\ UNCHANGED ledgerVars
    /\ UNCHANGED crmVars

\* The search index of the CRM takes up a created record.
IndexPipeline(i) ==
    /\ ~crm[i].searchable
    /\ crm' = [crm EXCEPT ![i].searchable = TRUE]
    /\ UNCHANGED poller
    /\ UNCHANGED mergeVars
    /\ UNCHANGED ledgerVars
    /\ UNCHANGED storeVars

InitPoll ==
    /\ records = [k \in Keys |-> NoRecord]
    /\ kindsSeen = [k \in Keys |-> {}]
    /\ nEvents = 0
    /\ ledger = [last |-> 0]
    /\ fileExists = FALSE
    /\ lastUpsert = [pc |-> "idle"]
    /\ contacts = [e \in Emails |->
                     IF e = "a" THEN Contact("new", "false", "personal", "A") ELSE NoContact]
    /\ inbox \in AppointmentLists
    /\ \E org \in {0, 1} : lastOp = [now |-> 1, org |-> org]
    /\ crm = <<>>
    /\ poller = Idle

NextPoll ==
    \/ poll_new_start
    \/ \E found \in BOOLEAN : poll_new_appt(found)
    \/ poll_new_save
    \/ poll_new_exit
    \/ Tick
    \/ \E i \in 1..Len(crm) : IndexPipeline(i)

SpecPoll == InitPoll /\ [][NextPoll]_vars

\* C37: after any number of polls the CRM holds at most one pipeline
\* record per booking key.
C37_OneRecordPerBookingKey ==
    \A i, j \in 1..Len(crm) : crm[i].Booking_Id = crm[j].Booking_Id => i = j

\* C38: the cursor poll_new saves lies between the cursor it loaded and the
\* end of the window it polled, and it is saved with no fetched appointment
\* left to handle.
C38_CursorWithinWindow ==
    poller.pc = "saved" =>
        /\ poller.start <= ledger.last
        /\ ledger.last <= poller.end
        /\ poller.queue = <<>>

(***************************************************************************)
(* The STOP poller against the CRM: process_once of                         *)
(* app/tasks/mail_unsub_poll.py. inbox is the scanned IMAP folder, ledger   *)
(* the uids of the state file .unsub_seen.json, crm the sender's Contact    *)
(* with its opt-out flag, the Stage of its pipeline record and its notes.   *)
(***************************************************************************)
\* The Contact of customer a in the CRM; no other sender has one.
CrmCustomer(Stage) == [Email_Opt_Out |-> FALSE, Stage |-> Stage, notes |-> 0]

\* The non-dry branch for one STOP mail: opt-out, the pipeline record
\* dropped unless booked or dropped, a note; nothing without a Contact.
OptOut(c, sender) ==
    IF sender # "a" THEN c
    ELSE [c EXCEPT !.Email_Opt_Out = TRUE,
                   !.Stage = IF Lower(@) \in {"booked", "dropped"} THEN @ ELSE "Dropped",
                   !.notes = @ + 1]

\* The loop of process_once over the unseen uids.
RECURSIVE MailUnsubLoop(_, _, _, _, _, _)
MailUnsubLoop(uids, seen, ib, c, DRY_RUN, handled) ==
    IF uids = <<>> THEN [seen |-> seen, inbox |-> ib, crm |-> c, handled |-> handled]
    ELSE
      LET uid == Head(uids)
          ib1 == Fetch(ib, uid)
          sender == ib[uid].sender
      IN  IF uid \in seen THEN MailUnsubLoop(Tail(uids), seen, ib, c, DRY_RUN, handled)
          ELSE IF sender = ""
          THEN MailUnsubLoop(Tail(uids), seen \cup {uid}, ib1, c, DRY_RUN, handled)
          ELSE IF ~ib[uid].stop
          THEN MailUnsubLoop(Tail(uids), seen, ib1, c, DRY_RUN, handled)
          ELSE IF DRY_RUN
          THEN MailUnsubLoop(Tail(uids), seen \cup {uid}, ib1, c, DRY_RUN,
                             handled \cup {uid})
          ELSE MailUnsubLoop(Tail(uids), seen \cup {uid},
                             move_message(ib1, uid, MOVE_TO), OptOut(c, sender),
                             DRY_RUN, handled \cup {uid})

\* process_once: the state file is loaded, the folder searched for UNSEEN,
\* the loop run and the state file written. With the login failing ten
\* times the function returns before the search.
mail_unsub_process_once(DRY_RUN, logged_in) ==
    LET seen == IF fileExists THEN ledger ELSE {}
        run == IF logged_in
               THEN MailUnsubLoop(Unseen(inbox), seen, inbox, crm, DRY_RUN, {})
               ELSE [seen |-> seen, inbox |-> inbox, crm |-> crm, handled |-> {}]
    IN  /\ lastOp.op = "none"
        /\ inbox' = run.inbox
        /\ crm' = run.crm
        /\ ledger' = IF logged_in THEN run.seen ELSE ledger
        /\ fileExists' = (fileExists \/ logged_in)
        /\ lastOp' = [op |-> "mail_unsub", dry_run |-> DRY_RUN, handled |-> run.handled]
        /\ UNCHANGED <<lastUpsert, contacts, poller>>
        /\ UNCHANGED mergeVars

InitMailUnsub ==
    /\ records = [k \in Keys |-> NoRecord]
    /\ kindsSeen = [k \in Keys |-> {}]
    /\ nEvents = 0
    /\ ledger = {}
    /\ fileExists = FALSE
    /\ lastUpsert = [pc |-> "idle"]
    /\ contacts = [e \in Emails |-> NoContact]
    /\ inbox \in MailSeqs({"a", "c", ""})
    /\ lastOp = [op |-> "none"]
    /\ crm \in {CrmCustomer("New"), CrmCustomer("Booked")}
    /\ poller = Idle

NextMailUnsub ==
    \/ \E DRY_RUN, logged_in \in BOOLEAN : mail_unsub_process_once(DRY_RUN, logged_in)
    \/ TaskExit

SpecMailUnsub == InitMailUnsub /\ [][NextMailUnsub]_vars

\* The STOP mails a non-dry run of process_once would act on.
WouldHandle(ib, exists, state) ==
    {u \in 1..Len(ib) :
        /\ ib[u].folder = "INBOX" /\ ~ib[u].seen
        /\ ~(exists /\ u \in state)
        /\ ib[u].stop /\ ib[u].sender # ""}

\* C39: a dry run of process_once writes nothing to the CRM, moves no
\* message, and leaves every STOP mail to be acted on by a later non-dry
\* run.
C39_DryRunIsNotDurable ==
    [][(lastOp.op = "none" /\ lastOp'.op = "mail_unsub" /\ lastOp'.dry_run)
        => /\ crm' = crm
           /\ \A u \in 1..Len(inbox) : inbox'[u].folder = inbox[u].folder
           /\ WouldHandle(inbox', fileExists', ledger')
                 = WouldHandle(inbox, fileExists, ledger)]_vars

====
